---- MODULE Spec2Model ----
(***************************************************************************)
(* Lead generation pipeline (services/lead_generator.py), client quota     *)
(* (models/client.py), campaigns and executions (models/campaign.py),      *)
(* the campaign scheduler (services/campaign_scheduler.py) and the         *)
(* campaign routes (routes/campaigns.py).                                  *)
(*                                                                         *)
(* Text that the code transforms (emails, titles, industries, locations,   *)
(* profile URLs) is a sequence of one-character strings, so that lower(),  *)
(* strip(), substring tests and the e-mail pattern are computed.           *)
(* Time is counted in minutes; the clock moves an hour at a time.          *)
(***************************************************************************)
EXTENDS Integers, Sequences, FiniteSets, TLC

(***************************************************************************)
(* Bounds of the model.                                                    *)
(***************************************************************************)
MaxBatch == 2       \* people in one search response

MaxRequest == 2     \* largest max_results and max_leads_per_run

MaxQuota == 3       \* largest api_quota_monthly

MaxTime == 2        \* hours the clock runs

(***************************************************************************)
(* Text helpers: Python str.lower, str.strip, the `in` substring test.     *)
(***************************************************************************)
UpperLetters ==
    <<"A","B","C","D","E","F","G","H","I","J","K","L","M",
      "N","O","P","Q","R","S","T","U","V","W","X","Y","Z">>

LowerLetters ==
    <<"a","b","c","d","e","f","g","h","i","j","k","l","m",
      "n","o","p","q","r","s","t","u","v","w","x","y","z">>

Digits == {"0","1","2","3","4","5","6","7","8","9"}

Letters == {UpperLetters[i] : i \in 1..26} \cup {LowerLetters[i] : i \in 1..26}

Whitespace == {" ", "\t", "\n", "\r"}

SetMin(S) == CHOOSE x \in S : \A y \in S : x <= y

SetMax(S) == CHOOSE x \in S : \A y \in S : y <= x

lower_char(ch) ==
    IF \E i \in 1..26 : UpperLetters[i] = ch
    THEN LowerLetters[CHOOSE i \in 1..26 : UpperLetters[i] = ch]
    ELSE ch

lower(s) == [i \in 1..Len(s) |-> lower_char(s[i])]

strip(s) ==
    LET keep == {i \in 1..Len(s) : s[i] \notin Whitespace}
    IN  IF keep = {} THEN <<>> ELSE SubSeq(s, SetMin(keep), SetMax(keep))

Contains(s, sub) ==
    \E i \in 0..(Len(s) - Len(sub)) : SubSeq(s, i + 1, i + Len(sub)) = sub

ContainsAny(s, subs) == \E k \in 1..Len(subs) : Contains(s, subs[k])

(***************************************************************************)
(* _is_valid_email_format: re.match of                                     *)
(*   ^[a-zA-Z0-9._%+-]+@[a-zA-Z0-9.-]+\.[a-zA-Z]{2,}$                      *)
(***************************************************************************)
LocalChars == Letters \cup Digits \cup {".", "_", "%", "+", "-"}

DomainChars == Letters \cup Digits \cup {".", "-"}

is_valid_email_format(email) ==
    \E at \in 2..Len(email) :
        /\ email[at] = "@"
        /\ \A i \in 1..(at - 1) : email[i] \in LocalChars
        /\ \E dot \in (at + 2)..(Len(email) - 2) :
              /\ email[dot] = "."
              /\ \A i \in (at + 1)..(dot - 1) : email[i] \in DomainChars
              /\ \A i \in (dot + 1)..Len(email) : email[i] \in Letters

(***************************************************************************)
(* Keyword tables of _calculate_lead_score and _get_score_breakdown.       *)
(***************************************************************************)
high_value_titles ==
    << <<"c","e","o">>,
       <<"c","h","i","e","f"," ","e","x","e","c","u","t","i","v","e">>,
       <<"m","a","n","a","g","i","n","g"," ","d","i","r","e","c","t","o","r">>,
       <<"g","e","n","e","r","a","l"," ","m","a","n","a","g","e","r">>,
       <<"d","i","r","e","c","t","o","r">>,
       <<"h","e","a","d"," ","o","f">>,
       <<"m","a","n","a","g","e","r">>,
       <<"l","e","a","d","e","r">>,
       <<"p","r","i","n","c","i","p","a","l">>,
       <<"f","o","u","n","d","e","r">>,
       <<"o","w","n","e","r">>,
       <<"p","r","e","s","i","d","e","n","t">>,
       <<"v","i","c","e"," ","p","r","e","s","i","d","e","n","t">>,
       <<"v","p">> >>

target_industries ==
    << <<"c","o","n","s","u","l","t","i","n","g">>,
       <<"p","r","o","f","e","s","s","i","o","n","a","l"," ","s","e","r","v","i","c","e","s">>,
       <<"m","a","n","a","g","e","m","e","n","t">>,
       <<"h","e","a","l","t","h","c","a","r","e">>,
       <<"e","d","u","c","a","t","i","o","n">>,
       <<"f","i","n","a","n","c","e">>,
       <<"t","e","c","h","n","o","l","o","g","y">>,
       <<"m","a","n","u","f","a","c","t","u","r","i","n","g">>,
       <<"c","o","n","s","t","r","u","c","t","i","o","n">>,
       <<"g","o","v","e","r","n","m","e","n","t">> >>

australian_cities ==
    << <<"s","y","d","n","e","y">>,
       <<"m","e","l","b","o","u","r","n","e">>,
       <<"b","r","i","s","b","a","n","e">>,
       <<"p","e","r","t","h">>,
       <<"a","d","e","l","a","i","d","e">>,
       <<"c","a","n","b","e","r","r","a">>,
       <<"d","a","r","w","i","n">>,
       <<"h","o","b","a","r","t">>,
       <<"a","u","s","t","r","a","l","i","a">> >>

score_email_domains ==
    << <<".","c","o","m",".","a","u">>,
       <<".","o","r","g",".","a","u">>,
       <<".","n","e","t",".","a","u">>,
       <<".","g","o","v",".","a","u">> >>

breakdown_email_domains ==
    << <<".","c","o","m",".","a","u">>,
       <<".","o","r","g",".","a","u">> >>

(***************************************************************************)
(* People the search provider may return (raw payloads of the people       *)
(* search API).  PAnn is a complete, senior contact; PAnnDup carries the   *)
(* same address in another case and with a leading blank; PBob has an      *)
(* address only; PBad has a malformed address; PTiny works for a company   *)
(* of 5; PNoName has no name; PAnnSmall is a second record with Ann's      *)
(* address, at a company of 5.                                             *)
(***************************************************************************)
PAnn ==
    [first_name |-> <<"A","n","n">>, last_name |-> <<"L","e","e">>, email |-> <<"a","@","x",".","c","o">>,
     phone |-> "0400", org_name |-> "X", org_size |-> 100,
     title |-> <<"C","E","O">>, industry |-> <<"F","i","n","a","n","c","e">>, city |-> <<"P","e","r","t","h">>,
     linkedin_url |-> <<"l","i","n","k","e","d","i","n",".","c","o","m","/","i","n","/","a">>]

PAnnDup ==
    [first_name |-> <<"A","n","n">>, last_name |-> <<>>, email |-> <<" ","A","@","x",".","c","o">>,
     phone |-> "", org_name |-> "X", org_size |-> 30,
     title |-> <<"C","l","e","r","k">>, industry |-> <<>>, city |-> <<>>,
     linkedin_url |-> <<"l","i","n","k","e","d","i","n",".","c","o","m","/","c","o","m","p","a","n","y","/","x">>]

PBob ==
    [first_name |-> <<"B","o","b">>, last_name |-> <<>>, email |-> <<"b","@","y",".","c","o","m",".","a","u">>,
     phone |-> "", org_name |-> "", org_size |-> 0,
     title |-> <<>>, industry |-> <<>>, city |-> <<>>,
     linkedin_url |-> <<>>]

PBad ==
    [first_name |-> <<"C","y">>, last_name |-> <<>>, email |-> <<"c","@","z">>,
     phone |-> "0401", org_name |-> "Z", org_size |-> 60,
     title |-> <<"O","w","n","e","r">>, industry |-> <<>>, city |-> <<>>,
     linkedin_url |-> <<>>]

PTiny ==
    [first_name |-> <<"D","i">>, last_name |-> <<>>, email |-> <<"d","@","w",".","c","o">>,
     phone |-> "0402", org_name |-> "W", org_size |-> 5,
     title |-> <<"F","o","u","n","d","e","r">>, industry |-> <<"T","e","c","h","n","o","l","o","g","y">>, city |-> <<"S","y","d","n","e","y">>,
     linkedin_url |-> <<>>]

PNoName ==
    [first_name |-> <<" ">>, last_name |-> <<>>, email |-> <<"e","@","v",".","c","o">>,
     phone |-> "", org_name |-> "", org_size |-> 0,
     title |-> <<>>, industry |-> <<>>, city |-> <<>>,
     linkedin_url |-> <<>>]

PAnnSmall == [PAnn EXCEPT !.org_name = "V", !.org_size = 5]

People == {PAnn, PAnnDup, PBob, PBad, PTiny, PNoName, PAnnSmall}

(***************************************************************************)
(* ApolloAPIClient._process_person_data: the common candidate-lead shape;  *)
(* a person without a name or without an address is dropped.  The result   *)
(* is a sequence of zero or one lead.  The annotation fields               *)
(* (email_verification, email_verified, linkedin_validation, score) are    *)
(* absent in the code until a later stage sets them: "", -1 and the empty  *)
(* breakdown stand for an absent key.                                      *)
(***************************************************************************)
process_person_data(person) ==
    LET first == strip(person.first_name)
        last  == strip(person.last_name)
        name  == strip(first \o <<" ">> \o last)
        email == strip(person.email)
    IN  IF name = <<>> \/ email = <<>>
        THEN <<>>
        ELSE << [name |-> name, email |-> email, phone |-> person.phone,
                 company |-> person.org_name, title |-> person.title,
                 industry |-> person.industry, location |-> person.city,
                 linkedin_url |-> person.linkedin_url,
                 company_size |-> person.org_size,
                 email_verification |-> "", email_verified |-> FALSE,
                 linkedin_validation |-> "", score |-> -1,
                 score_breakdown |-> <<>>] >>

RECURSIVE process_people(_)
process_people(people) ==
    IF people = <<>> THEN <<>>
    ELSE process_person_data(Head(people)) \o process_people(Tail(people))

(***************************************************************************)
(* LeadGenerationService._filter_and_deduplicate.  existing is the set of  *)
(* lower-cased addresses of the client's stored leads.                     *)
(***************************************************************************)
existing_emails(store, client_id) ==
    {lower(store[i].email) : i \in {j \in 1..Len(store) : store[j].client_id = client_id}}

RECURSIVE filter_keeping_small(_, _, _)
filter_keeping_small(cands, seen, existing) ==
    IF cands = <<>> THEN <<>>
    ELSE LET lead  == Head(cands)
             email == strip(lower(lead.email))
             skip  == \/ email = <<>>
                      \/ email \in seen
                      \/ email \in existing
                      \/ ~is_valid_email_format(email)
         IN  IF skip
             THEN filter_keeping_small(Tail(cands), seen, existing)
             ELSE <<lead>> \o filter_keeping_small(Tail(cands), seen \cup {email}, existing)

RECURSIVE filter_loop(_, _, _)
filter_loop(cands, seen, existing) ==
    IF cands = <<>> THEN <<>>
    ELSE LET lead  == Head(cands)
             email == strip(lower(lead.email))
             skip  == \/ email = <<>>
                      \/ email \in seen
                      \/ email \in existing
                      \/ ~is_valid_email_format(email)
                      \/ (lead.company_size > 0 /\ lead.company_size < 10)
         IN  IF skip
             THEN filter_loop(Tail(cands), seen, existing)
             ELSE <<lead>> \o filter_loop(Tail(cands), seen \cup {email}, existing)

filter_ignoring_store(store, client_id, cands) == filter_loop(cands, {}, {})

filter_and_deduplicate(store, client_id, cands) ==
    filter_loop(cands, {}, existing_emails(store, client_id))

(***************************************************************************)
(* LinkedInAPIClient.validate_profile_url (is_valid only) with             *)
(* _extract_linkedin_id_from_url.                                          *)
(***************************************************************************)
rstrip_slash(s) ==
    LET keep == {i \in 1..Len(s) : s[i] # "/"}
    IN  IF keep = {} THEN <<>> ELSE SubSeq(s, 1, SetMax(keep))

extract_linkedin_id_nonempty(url) ==
    LET marker == <<"/","i","n","/">>
        starts == {i \in 0..(Len(url) - 4) : SubSeq(url, i + 1, i + 4) = marker}
    IN  /\ starts # {}
        /\ LET first == SetMin(starts)
               nxt   == {i \in starts : i >= first + 4}
               stop  == IF nxt = {} THEN Len(url) ELSE SetMin(nxt)
               part  == rstrip_slash(SubSeq(url, first + 5, stop))
           IN  part # <<>> /\ part[1] # "/"

validate_profile_url(url) ==
    /\ url # <<>>
    /\ Contains(lower(url), <<"l","i","n","k","e","d","i","n",".","c","o","m">>)
    /\ Contains(url, <<"/","i","n","/">>)
    /\ extract_linkedin_id_nonempty(url)

(***************************************************************************)
(* HunterAPIClient.is_email_deliverable on the outcomes of verify_email.   *)
(* An outcome is the provider's result with its confidence score; a        *)
(* failed request gives result "unknown" (verify_email catches it); an     *)
(* answer without a result field gives result None, written "missing",     *)
(* on which is_email_deliverable raises (None has no lower()).             *)
(***************************************************************************)
VerifyOutcomes ==
    { [result |-> "deliverable", score |-> 90],
      [result |-> "risky",       score |-> 50],
      [result |-> "unknown",     score |-> 0],
      [result |-> "missing",     score |-> 0] }

is_email_deliverable(v) ==
    v.result = "deliverable" \/ (v.result = "risky" /\ v.score >= 70)

(***************************************************************************)
(* LeadGenerationService._enhance_leads: outcomes[i] is what the           *)
(* verification provider answers for the i-th candidate.  When            *)
(* is_email_deliverable raises, the except branch of the loop appends      *)
(* the lead as it is then: with email_verification, without the rest.      *)
(***************************************************************************)
enhance_lead(lead, outcome, verify_emails, enrich_linkedin) ==
    LET verified == verify_emails /\ lead.email # <<>>
        l1 == IF verified
              THEN [lead EXCEPT !.email_verification = outcome.result,
                                !.email_verified =
                                    IF outcome.result = "missing" THEN @
                                    ELSE is_email_deliverable(outcome)]
              ELSE lead
    IN  IF verified /\ outcome.result = "missing"
        THEN l1
        ELSE IF enrich_linkedin /\ lead.linkedin_url # <<>>
        THEN [l1 EXCEPT !.linkedin_validation =
                 IF validate_profile_url(lead.linkedin_url) THEN "valid" ELSE "invalid"]
        ELSE l1

RECURSIVE enhance_until_failure(_, _, _, _)
enhance_until_failure(cands, outcomes, verify_emails, enrich_linkedin) ==
    IF cands = <<>> \/ (verify_emails /\ outcomes[1].result = "missing")
    THEN <<>>
    ELSE <<enhance_lead(cands[1], outcomes[1], verify_emails, enrich_linkedin)>>
         \o enhance_until_failure(Tail(cands), Tail(outcomes), verify_emails,
                                  enrich_linkedin)

enhance_leads(cands, outcomes, verify_emails, enrich_linkedin) ==
    [i \in 1..Len(cands) |->
        enhance_lead(cands[i], outcomes[i], verify_emails, enrich_linkedin)]

verify_calls(cands, verify_emails) ==
    IF verify_emails
    THEN Cardinality({i \in 1..Len(cands) : cands[i].email # <<>>})
    ELSE 0

(***************************************************************************)
(* LeadGenerationService._calculate_lead_score.                            *)
(***************************************************************************)
calculate_lead_score(lead) ==
    LET email_pts ==
            IF lead.email # <<>>
            THEN 15
                 + (IF lead.email_verification = "deliverable" THEN 10
                    ELSE IF lead.email_verification = "risky" THEN 5 ELSE 0)
                 + (IF ContainsAny(lower(lead.email), score_email_domains) THEN 5 ELSE 0)
            ELSE 0
        phone_pts == IF lead.phone # "" THEN 15 ELSE 0
        linkedin_pts ==
            IF lead.linkedin_url # <<>>
            THEN 10 + (IF lead.linkedin_validation = "valid" THEN 5 ELSE 0)
            ELSE 0
        company_pts ==
            IF lead.company # ""
            THEN 10 + (IF 50 <= lead.company_size /\ lead.company_size <= 500 THEN 10
                       ELSE IF 20 <= lead.company_size /\ lead.company_size <= 1000 THEN 5
                       ELSE 0)
            ELSE 0
        title == lower(lead.title)
        title_pts ==
            IF title # <<>>
            THEN 5 + (IF ContainsAny(title, high_value_titles) THEN 10 ELSE 0)
            ELSE 0
        industry == lower(lead.industry)
        industry_pts ==
            IF industry # <<>>
            THEN 3 + (IF ContainsAny(industry, target_industries) THEN 7 ELSE 0)
            ELSE 0
        location == lower(lead.location)
        location_pts ==
            IF location # <<>> /\ ContainsAny(location, australian_cities) THEN 5 ELSE 0
        score == email_pts + phone_pts + linkedin_pts + company_pts
                 + title_pts + industry_pts + location_pts
    IN  IF score < 100 THEN score ELSE 100

(***************************************************************************)
(* LeadGenerationService._get_score_breakdown: the dict of the points it   *)
(* lists, a key being present when its condition holds.                    *)
(***************************************************************************)
get_score_breakdown(lead) ==
    LET has_email == lead.email # <<>>
        has_company == lead.company # ""
        optimal == 50 <= lead.company_size /\ lead.company_size <= 500
        good == 20 <= lead.company_size /\ lead.company_size <= 1000
        points ==
            [email_present |-> IF has_email THEN 15 ELSE 0,
             email_verified |->
                 IF has_email /\ lead.email_verification = "deliverable" THEN 10 ELSE 0,
             email_risky |->
                 IF has_email /\ lead.email_verification = "risky" THEN 5 ELSE 0,
             australian_email |->
                 IF has_email /\ ContainsAny(lower(lead.email), breakdown_email_domains)
                 THEN 5 ELSE 0,
             phone_present |-> IF lead.phone # "" THEN 15 ELSE 0,
             linkedin_present |-> IF lead.linkedin_url # <<>> THEN 10 ELSE 0,
             linkedin_valid |->
                 IF lead.linkedin_url # <<>> /\ lead.linkedin_validation = "valid"
                 THEN 5 ELSE 0,
             company_present |-> IF has_company THEN 10 ELSE 0,
             optimal_company_size |-> IF has_company /\ optimal THEN 10 ELSE 0,
             good_company_size |-> IF has_company /\ ~optimal /\ good THEN 5 ELSE 0]
    IN  [key \in {k \in DOMAIN points : points[k] > 0} |-> points[key]]

(***************************************************************************)
(* LeadGenerationService._apply_ai_scoring.                                *)
(***************************************************************************)
apply_ai_scoring(cands) ==
    [i \in 1..Len(cands) |->
        LET scored == [cands[i] EXCEPT !.score = calculate_lead_score(cands[i])]
        IN  [scored EXCEPT !.score_breakdown = get_score_breakdown(scored)]]

(***************************************************************************)
(* generate_leads, step 5: keep score >= min_score, sort on the score,     *)
(* highest first (list.sort is stable), then the slice [:max_results].     *)
(***************************************************************************)
RECURSIVE qualified_leads(_, _)
qualified_leads(cands, min_score) ==
    IF cands = <<>> THEN <<>>
    ELSE (IF Head(cands).score >= min_score THEN <<Head(cands)>> ELSE <<>>)
         \o qualified_leads(Tail(cands), min_score)

insert_by_score(sorted, lead) ==
    LET before == {i \in 1..Len(sorted) : sorted[i].score >= lead.score}
        k == IF before = {} THEN 0 ELSE SetMax(before)
    IN  SubSeq(sorted, 1, k) \o <<lead>> \o SubSeq(sorted, k + 1, Len(sorted))

RECURSIVE sort_by_score_desc(_, _)
sort_by_score_desc(done, rest) ==
    IF rest = <<>> THEN done
    ELSE sort_by_score_desc(insert_by_score(done, Head(rest)), Tail(rest))

py_slice_to(s, n) ==
    IF n >= 0
    THEN SubSeq(s, 1, IF n < Len(s) THEN n ELSE Len(s))
    ELSE SubSeq(s, 1, Len(s) + n)

final_leads(cands, min_score, max_results) ==
    py_slice_to(sort_by_score_desc(<<>>, qualified_leads(cands, min_score)), max_results)

(***************************************************************************)
(* LeadGenerationService._save_leads_to_database, the rows it adds to the  *)
(* session: one Lead per final lead whose construction does not raise      *)
(* (broken is the set of positions whose Lead(...) or JSON setters raise;  *)
(* the code logs and skips them).                                          *)
(***************************************************************************)
RECURSIVE lead_rows(_, _, _, _, _)
lead_rows(client_id, campaign_id, leads, i, broken) ==
    IF i > Len(leads) THEN <<>>
    ELSE (IF i \in broken THEN <<>>
          ELSE << [client_id |-> client_id, campaign_id |-> campaign_id,
                   email |-> leads[i].email, score |-> leads[i].score] >>)
         \o lead_rows(client_id, campaign_id, leads, i + 1, broken)

(***************************************************************************)
(* Client.can_generate_leads.                                              *)
(***************************************************************************)
can_generate_leads_unchecked(api_usage_current, api_quota_monthly, count) == TRUE

can_generate_leads(api_usage_current, api_quota_monthly, count) ==
    api_usage_current + count <= api_quota_monthly


(***************************************************************************)
(* Python None for the optional integer and datetime columns               *)
(* (max_leads_total, last_run_at, next_run_at, preferred_time); every      *)
(* real value of these columns is >= 0 in the model.                       *)
(***************************************************************************)
None == -1

(***************************************************************************)
(* Minutes per hour and per day: the unit of time is the minute.           *)
(***************************************************************************)
Hour == 60

Day == 1440

(***************************************************************************)
(* Identities.  A request may name a client that does not exist.  Procs    *)
(* are the threads that run handlers: two request workers and the          *)
(* scheduler thread.                                                       *)
(***************************************************************************)
Clients == {"c1"}

ClientIds == Clients \cup {"nobody"}

CampaignIds == {"k1", "k2"}

WebProcs == {"web1", "web2"}

SchedProc == "sched"

LoopThreads == {SchedProc, "sched2"}

Procs == WebProcs \cup LoopThreads

RECURSIVE SeqsUpTo(_, _)
SeqsUpTo(S, n) ==
    IF n = 0 THEN {<<>>}
    ELSE SeqsUpTo(S, n - 1) \cup
         {Append(s, x) : s \in {t \in SeqsUpTo(S, n - 1) : Len(t) = n - 1}, x \in S}

SearchResponses == SeqsUpTo(People, MaxBatch)

VARIABLES
    usage,       \* Client.api_usage_current, per client (committed)
    quota,       \* Client.api_quota_monthly, per client
    leads,       \* the leads table: committed Lead rows, in insertion order
    campaigns,   \* the campaigns table: id -> Campaign row
    executions,  \* the campaign_executions table, in insertion order
    now,         \* the clock (datetime.utcnow), in minutes
    scheduler,   \* the AutomatedCampaignScheduler object and its loop threads
    run,         \* per thread: the frame of generate_leads it is running
    task,        \* per thread: the handler it is running
    adapter      \* a provider adapter object and the calls in progress through it

vars == <<usage, quota, leads, campaigns, executions, now, scheduler, run, task,
         adapter>>

(***************************************************************************)
(* The frame of one generate_leads call.  usage_before and leads_before    *)
(* record the store as the call found it; searches and verifications       *)
(* count the provider requests the call sent; step names the statement     *)
(* that raised when the call failed; raw and filtered are the counts of    *)
(* the generation summary (apollo_results, after_filtering).               *)
(***************************************************************************)
IdleRun ==
    [pc |-> "idle", client_id |-> "", campaign_id |-> "", max_results |-> 0,
     min_score |-> 0, verify_emails |-> FALSE, enrich_linkedin |-> FALSE,
     cands |-> <<>>, saved |-> 0, usage_read |-> 0,
     result |-> "", step |-> "",
     usage_before |-> 0, quota_before |-> 0, leads_before |-> <<>>,
     searches |-> 0, verifications |-> 0, raw |-> 0, filtered |-> 0,
     suggestions |-> <<>>]

IdleTask ==
    [kind |-> "idle", campaign |-> "", execution |-> 0, due |-> <<>>, logged |-> FALSE]

Failure(frame, step) == [frame EXCEPT !.pc = "done", !.result = "failure", !.step = step]

(***************************************************************************)
(* generate_leads, lines 57-64: load the client, check the quota.          *)
(***************************************************************************)
begin_generate(client_id, campaign_id, max_results, min_score, verify_emails, enrich_linkedin) ==
    LET frame == [IdleRun EXCEPT !.client_id = client_id, !.campaign_id = campaign_id,
                                 !.max_results = max_results, !.min_score = min_score,
                                 !.verify_emails = verify_emails,
                                 !.enrich_linkedin = enrich_linkedin,
                                 !.leads_before = leads]
    IN  IF client_id \notin Clients
        THEN Failure(frame, "client")
        ELSE LET f2 == [frame EXCEPT !.usage_before = usage[client_id],
                                     !.quota_before = quota[client_id]]
             IN  IF ~can_generate_leads(usage[client_id], quota[client_id], max_results)
                 THEN Failure(f2, "quota")
                 ELSE [f2 EXCEPT !.pc = "search"]

(***************************************************************************)
(* generate_leads, lines 66-68: the people search; the adapter raises      *)
(* ApolloAPIError on a failed request.                                     *)
(***************************************************************************)
search(p, responses) ==
    /\ run[p].pc = "search"
    /\ \/ \E people \in responses :
             run' = [run EXCEPT ![p] = [@ EXCEPT !.pc = "filter",
                                                 !.cands = process_people(people),
                                                 !.raw = Len(process_people(people)),
                                                 !.searches = @ + 1]]
       \/ run' = [run EXCEPT ![p] = Failure([@ EXCEPT !.searches = @ + 1], "search")]
    /\ UNCHANGED <<usage, quota, leads, campaigns, executions, now, task>>
    /\ UNCHANGED <<scheduler, adapter>>

Search(p) == search(p, SearchResponses)

(***************************************************************************)
(* generate_leads, line 73: _filter_and_deduplicate reads the client's     *)
(* stored addresses.                                                       *)
(***************************************************************************)
Filter(p) ==
    /\ run[p].pc = "filter"
    /\ LET f == run[p]
           kept == filter_and_deduplicate(leads, f.client_id, f.cands)
       IN  run' = [run EXCEPT ![p] = [f EXCEPT !.pc = "enhance", !.cands = kept,
                                               !.filtered = Len(kept)]]
    /\ UNCHANGED <<usage, quota, leads, campaigns, executions, now, task>>
    /\ UNCHANGED <<scheduler, adapter>>

(***************************************************************************)
(* generate_leads, lines 78-88: enrichment, scoring, threshold, order,     *)
(* truncation.                                                             *)
(***************************************************************************)
enhance(p, verdicts) ==
    /\ run[p].pc = "enhance"
    /\ \E outcomes \in [1..Len(run[p].cands) -> verdicts] :
          LET f == run[p]
              enhanced == enhance_leads(f.cands, outcomes, f.verify_emails, f.enrich_linkedin)
              scored == apply_ai_scoring(enhanced)
          IN  run' = [run EXCEPT ![p] = [f EXCEPT !.pc = "save",
                         !.cands = final_leads(scored, f.min_score, f.max_results),
                         !.verifications = verify_calls(f.cands, f.verify_emails)]]
    /\ UNCHANGED <<usage, quota, leads, campaigns, executions, now, task>>
    /\ UNCHANGED <<scheduler, adapter>>

Enhance(p) == enhance(p, VerifyOutcomes)

(***************************************************************************)
(* generate_leads, line 93: _save_leads_to_database.  The commit either    *)
(* stores every added row or fails, is rolled back and re-raised.          *)
(***************************************************************************)
save_commit(store, rows) == store \o rows

rollback_keeping_rows(store, rows) == store \o rows

rollback(store, rows) == store

Save(p) ==
    /\ run[p].pc = "save"
    /\ \E broken \in SUBSET (1..Len(run[p].cands)) :
          LET f == run[p]
              rows == lead_rows(f.client_id, f.campaign_id, f.cands, 1, broken)
          IN  \/ /\ leads' = save_commit(leads, rows)
                 /\ run' = [run EXCEPT ![p] = [f EXCEPT !.pc = "incr_read",
                                                        !.saved = Len(rows)]]
              \/ /\ leads' = rollback(leads, rows)
                 /\ run' = [run EXCEPT ![p] = Failure(f, "save")]
    /\ UNCHANGED <<usage, quota, campaigns, executions, now, task>>
    /\ UNCHANGED <<scheduler, adapter>>

(***************************************************************************)
(* generate_leads, line 96: Client.increment_api_usage.  The commit of     *)
(* the save expired the client object, so `api_usage_current += count`     *)
(* first reloads the column, then writes the sum and commits.              *)
(***************************************************************************)
IncrementRead(p) ==
    /\ run[p].pc = "incr_read"
    /\ LET f == run[p]
       IN  run' = [run EXCEPT ![p] = [f EXCEPT !.pc = "incr_write",
                                               !.usage_read = usage[f.client_id]]]
    /\ UNCHANGED <<usage, quota, leads, campaigns, executions, now, task>>
    /\ UNCHANGED <<scheduler, adapter>>

increment_api_usage(api_usage_current, count) == api_usage_current + count

requested_count(frame) == frame.max_results

saved_count(frame) == frame.saved

IncrementWrite(p) ==
    /\ run[p].pc = "incr_write"
    /\ LET f == run[p]
       IN  \/ /\ usage' = [usage EXCEPT ![f.client_id] =
                               increment_api_usage(f.usage_read, saved_count(f))]
              /\ run' = [run EXCEPT ![p] =
                    IF f.campaign_id # ""
                    THEN [f EXCEPT !.pc = "stats"]
                    ELSE [f EXCEPT !.pc = "done", !.result = "success"]]
           \/ /\ usage' = usage
              /\ run' = [run EXCEPT ![p] = Failure(f, "increment")]
    /\ UNCHANGED <<quota, leads, campaigns, executions, now, task>>
    /\ UNCHANGED <<scheduler, adapter>>

(***************************************************************************)
(* generate_leads, lines 99-102: Campaign.update_stats of the campaign     *)
(* the leads were generated for.                                           *)
(***************************************************************************)
UpdateStats(p) ==
    /\ run[p].pc = "stats"
    /\ \/ run' = [run EXCEPT ![p] = [@ EXCEPT !.pc = "done", !.result = "success"]]
       \/ run' = [run EXCEPT ![p] = Failure(@, "stats")]
    /\ UNCHANGED <<usage, quota, leads, campaigns, executions, now, task>>
    /\ UNCHANGED <<scheduler, adapter>>

(***************************************************************************)
(* POST /generate (generate_leads route): the request handler builds the   *)
(* criteria from the payload and calls generate_leads; GenerateReturn is   *)
(* the handler answering with the result.                                  *)
(***************************************************************************)
Idle == \A p \in Procs : task[p].kind = "idle"

criteria_max_results(requested) == IF 500 < requested THEN 500 ELSE requested

generate_request(p, payloads) ==
    /\ p \in WebProcs
    /\ task[p].kind = "idle"
    /\ \E data \in payloads :
          run' = [run EXCEPT ![p] =
                    begin_generate(data.client_id, data.campaign_id,
                                   criteria_max_results(data.max_results),
                                   data.min_score, data.verify_emails,
                                   data.enrich_linkedin)]
    /\ task' = [task EXCEPT ![p] = [IdleTask EXCEPT !.kind = "generate"]]
    /\ UNCHANGED <<usage, quota, leads, campaigns, executions, now>>
    /\ UNCHANGED <<scheduler, adapter>>

(***************************************************************************)
(* Request payloads: the token names client c1 or a client that does not   *)
(* exist; max_results is any integer the JSON carries, negative included.  *)
(***************************************************************************)
PlainPayloads(counts) ==
    {[client_id |-> "c1", campaign_id |-> "", max_results |-> m, min_score |-> 20,
      verify_emails |-> FALSE, enrich_linkedin |-> FALSE] : m \in counts}

GeneratePayloads ==
    PlainPayloads((0 - 1)..MaxRequest)
    \cup {[client_id |-> "c1", campaign_id |-> "k1", max_results |-> MaxRequest,
           min_score |-> 60, verify_emails |-> TRUE, enrich_linkedin |-> TRUE],
          [client_id |-> "nobody", campaign_id |-> "", max_results |-> 1,
           min_score |-> 60, verify_emails |-> TRUE, enrich_linkedin |-> TRUE]}

GenerateRequest(p) ==
    /\ Idle
    /\ generate_request(p, GeneratePayloads)

GenerateReturn(p) ==
    /\ task[p].kind = "generate"
    /\ run[p].pc = "done"
    /\ run' = [run EXCEPT ![p] = IdleRun]
    /\ task' = [task EXCEPT ![p] = IdleTask]
    /\ UNCHANGED <<usage, quota, leads, campaigns, executions, now>>
    /\ UNCHANGED <<scheduler, adapter>>

(***************************************************************************)
(* POST /suggestions (models/lead.py lines 107-141) with                   *)
(* LeadGenerationService.get_lead_suggestions: one people search, then a   *)
(* preview of the first 5 raw leads with their score; an exception gives   *)
(* the failure result with no suggestions.  The method never loads the     *)
(* client.  The frame of the request has pc "previewed" until the route    *)
(* returns; usage_before, quota_before and leads_before are those of the   *)
(* client of the token.                                                    *)
(***************************************************************************)
suggestion(lead) ==
    LET ats == {i \in 1..Len(lead.email) : lead.email[i] = "@"}
    IN  [name |-> lead.name, company |-> lead.company, title |-> lead.title,
         location |-> lead.location, score |-> calculate_lead_score(lead),
         email_domain |-> IF ats = {} THEN lead.email
                          ELSE SubSeq(lead.email, SetMax(ats) + 1, Len(lead.email))]

suggest_all(raw_leads) ==
    [i \in 1..Len(raw_leads) |-> suggestion(raw_leads[i])]

get_lead_suggestions(raw_leads) ==
    [i \in 1..(IF Len(raw_leads) < 5 THEN Len(raw_leads) ELSE 5) |->
        suggestion(raw_leads[i])]

AllPeople == <<PAnn, PAnnDup, PBob, PBad, PTiny, PNoName, PAnnSmall>>

GetLeadSuggestions(p) ==
    /\ Idle
    /\ p \in WebProcs
    /\ LET f == [IdleRun EXCEPT !.pc = "previewed",
                                !.usage_before = usage["c1"],
                                !.quota_before = quota["c1"],
                                !.leads_before = leads, !.searches = 1]
       IN  \/ \E n \in 0..Len(AllPeople) :
                 LET raw_leads == process_people(SubSeq(AllPeople, 1, n))
                 IN  run' = [run EXCEPT ![p] =
                                [f EXCEPT !.suggestions = get_lead_suggestions(raw_leads),
                                          !.raw = Len(raw_leads),
                                          !.result = "success"]]
           \/ run' = [run EXCEPT ![p] = [f EXCEPT !.result = "failure"]]
    /\ task' = [task EXCEPT ![p] = [IdleTask EXCEPT !.kind = "suggestions"]]
    /\ UNCHANGED <<usage, quota, leads, campaigns, executions, now>>
    /\ UNCHANGED <<scheduler, adapter>>

SuggestionsReturn(p) ==
    /\ task[p].kind = "suggestions"
    /\ run' = [run EXCEPT ![p] = IdleRun]
    /\ task' = [task EXCEPT ![p] = IdleTask]
    /\ UNCHANGED <<usage, quota, leads, campaigns, executions, now>>
    /\ UNCHANGED <<scheduler, adapter>>

(***************************************************************************)
(* Campaign.calculate_next_run at time t (datetime.now() of the call).     *)
(***************************************************************************)
FirstRunDelay == 5

MaxExecutions == 2  \* rows of the campaign_executions table

always_next_day(c, t) == IF c.last_run_at = None THEN t + FirstRunDelay ELSE c.last_run_at + Day

calculate_next_run(c, t) ==
    IF c.last_run_at = None
    THEN IF c.preferred_time # None
         THEN LET next_run == (t \div Day) * Day + c.preferred_time
              IN  IF next_run <= t THEN next_run + Day ELSE next_run
         ELSE t + FirstRunDelay
    ELSE IF c.frequency = "daily" THEN c.last_run_at + Day
    ELSE IF c.frequency = "weekly" THEN c.last_run_at + 7 * Day
    ELSE IF c.frequency = "monthly" THEN c.last_run_at + 30 * Day
    ELSE IF c.frequency = "custom"
         THEN IF c.frequency_unit = "day" THEN c.last_run_at + c.frequency_value * Day
              ELSE IF c.frequency_unit = "week" THEN c.last_run_at + c.frequency_value * 7 * Day
              ELSE IF c.frequency_unit = "hour" THEN c.last_run_at + c.frequency_value * Hour
              ELSE c.last_run_at + Day
    ELSE c.last_run_at + Day

(***************************************************************************)
(* Campaign.has_reached_total_limit: `not self.max_leads_total` holds for  *)
(* None and for 0.                                                         *)
(***************************************************************************)
never_reached_total_limit(c) == FALSE

reached_only_beyond_limit(c) ==
    c.max_leads_total # None /\ c.total_leads_generated > c.max_leads_total

has_reached_total_limit(c) ==
    IF c.max_leads_total = None \/ c.max_leads_total = 0
    THEN FALSE
    ELSE c.total_leads_generated >= c.max_leads_total

(***************************************************************************)
(* Campaign.update_after_run at time t (datetime.utcnow() of the call).    *)
(***************************************************************************)
update_without_next_run(c, leads_generated, t) ==
    LET c1 == [c EXCEPT !.last_run_at = t,
                        !.total_leads_generated = @ + leads_generated]
    IN  IF has_reached_total_limit(c1) THEN [c1 EXCEPT !.status = "completed"] ELSE c1

update_after_run(c, leads_generated, t) ==
    LET c1 == [c EXCEPT !.last_run_at = t,
                        !.total_leads_generated = @ + leads_generated]
        c2 == [c1 EXCEPT !.next_run_at = calculate_next_run(c1, t)]
    IN  IF has_reached_total_limit(c2) THEN [c2 EXCEPT !.status = "completed"] ELSE c2

(***************************************************************************)
(* Campaign.is_ready_to_run and CampaignScheduler.get_due_campaigns, in    *)
(* the order of CampaignOrder.                                             *)
(***************************************************************************)
ready_whatever_status(c, t) == c.next_run_at = None \/ t >= c.next_run_at

is_ready_to_run(c, t) ==
    IF c.status # "active" THEN FALSE
    ELSE IF c.next_run_at = None THEN TRUE
    ELSE t >= c.next_run_at

CampaignOrder == <<"k1", "k2">>

first_due_campaign(table, t) ==
    LET due(k) == /\ k \in DOMAIN table
                  /\ table[k].status = "active"
                  /\ (table[k].next_run_at = None \/ table[k].next_run_at <= t)
        all == SelectSeq(CampaignOrder, due)
    IN  IF all = <<>> THEN <<>> ELSE <<Head(all)>>

get_due_campaigns(table, t) ==
    LET due(k) == /\ k \in DOMAIN table
                  /\ table[k].status = "active"
                  /\ (table[k].next_run_at = None \/ table[k].next_run_at <= t)
    IN  SelectSeq(CampaignOrder, due)

(***************************************************************************)
(* CampaignExecution: the row created in status running, mark_completed    *)
(* and mark_failed.                                                        *)
(***************************************************************************)
new_execution(campaign_id) ==
    [campaign_id |-> campaign_id, status |-> "running", leads_generated |-> 0,
     error_message |-> ""]

mark_completed_without_count(e, leads_generated) == [e EXCEPT !.status = "completed"]

mark_completed(e, leads_generated) ==
    [e EXCEPT !.status = "completed", !.leads_generated = leads_generated]

mark_failed_keeping_status(e, error_message) ==
    [e EXCEPT !.error_message = error_message]

mark_failed(e, error_message) ==
    [e EXCEPT !.status = "failed", !.error_message = error_message]

(***************************************************************************)
(* _execute_campaign, lines 114-117: the effective max_results.            *)
(***************************************************************************)
PyMin(a, b) == IF b < a THEN b ELSE a

unclipped_max_results(c) == c.max_leads_per_run

max_results_ignoring_per_run(c) ==
    IF c.max_leads_total # None /\ c.max_leads_total # 0
    THEN c.max_leads_total - c.total_leads_generated
    ELSE 1

effective_max_results(c) ==
    PyMin(c.max_leads_per_run,
          IF c.max_leads_total # None /\ c.max_leads_total # 0
          THEN c.max_leads_total - c.total_leads_generated
          ELSE c.max_leads_per_run)

(***************************************************************************)
(* LeadGenerator.generate_leads(client_id, criteria, max_results), the     *)
(* pipeline entry the scheduler and the run-now route call: the pipeline   *)
(* of section 4.5 on the campaign's criteria with the given max_results    *)
(* and no campaign id.  It starts the same generate_leads frame.           *)
(***************************************************************************)
lead_generator_call(c, max_results) ==
    begin_generate(c.client_id, "", max_results, c.min_score, TRUE, TRUE)

(***************************************************************************)
(* What the callers read from the result: len(results.get('leads', [])).   *)
(***************************************************************************)
leads_in_result(frame) == IF frame.result = "success" THEN frame.saved ELSE 0

(***************************************************************************)
(* AutomatedCampaignScheduler._check_and_run_campaigns, lines 70-79: the   *)
(* query of the due campaigns that starts a tick.                          *)
(* When the query raises, the except of lines 87-88 logs it and the tick   *)
(* ends as it does when nothing is due.                                    *)
(***************************************************************************)
check_and_run_campaigns(p) ==
    /\ task[p].kind = "idle"
    /\ Len(executions) < MaxExecutions
    /\ LET due == get_due_campaigns(campaigns, now)
       IN  task' = [task EXCEPT ![p] =
                       IF due = <<>> THEN IdleTask
                       ELSE [IdleTask EXCEPT !.kind = "tick", !.due = due]]
    /\ UNCHANGED <<usage, quota, leads, campaigns, executions, now, run>>

Tick ==
    /\ Idle
    /\ check_and_run_campaigns(SchedProc)
    /\ UNCHANGED <<scheduler, adapter>>

(***************************************************************************)
(* The tick's loop moving to the next due campaign (lines 81-85).          *)
(***************************************************************************)
next_in_tick(t) ==
    IF Len(t.due) <= 1 THEN IdleTask
    ELSE [IdleTask EXCEPT !.kind = "tick", !.due = Tail(t.due)]

(***************************************************************************)
(* The except branch around one campaign of the tick (lines 84-85): the    *)
(* error is logged and the loop goes on with the next due campaign.        *)
(* logged tells that the turn that just ended wrote this log line.         *)
(***************************************************************************)
abort_tick(t) == IdleTask

after_exception(t) == [next_in_tick(t) EXCEPT !.logged = TRUE]

(***************************************************************************)
(* _execute_campaign, lines 90-134, for the campaign at the head of the    *)
(* tick's list, up to the call of the pipeline.  The commits of lines 97   *)
(* and 107 are outside the try of line 109: when one raises, nothing is    *)
(* stored and the exception leaves _execute_campaign.                      *)
(***************************************************************************)
execute_campaign(p) ==
    /\ task[p].kind = "tick"
    /\ task[p].campaign = ""
    /\ LET k == Head(task[p].due)
           c == campaigns[k]
           e == new_execution(k)
           n == Len(executions) + 1
       IN  \/ IF has_reached_total_limit(c)
              THEN /\ campaigns' = [campaigns EXCEPT ![k].status = "completed"]
                   /\ task' = [task EXCEPT ![p] = next_in_tick(@)]
                   /\ UNCHANGED <<executions, run>>
              ELSE IF effective_max_results(c) <= 0
              THEN /\ executions' = Append(executions, mark_completed(e, 0))
                   /\ campaigns' = [campaigns EXCEPT ![k].status = "completed"]
                   /\ task' = [task EXCEPT ![p] = next_in_tick(@)]
                   /\ UNCHANGED run
              ELSE \/ /\ executions' = Append(executions, e)
                      /\ run' = [run EXCEPT ![p] =
                                    lead_generator_call(c, effective_max_results(c))]
                      /\ task' = [task EXCEPT ![p] =
                                    [@ EXCEPT !.campaign = k, !.execution = n]]
                      /\ UNCHANGED campaigns
                   \/ /\ executions' = Append(executions, mark_failed(e, "error"))
                      /\ task' = [task EXCEPT ![p] = next_in_tick(@)]
                      /\ UNCHANGED <<campaigns, run>>
           \/ /\ task' = [task EXCEPT ![p] = after_exception(@)]
              /\ UNCHANGED <<campaigns, executions, run>>
    /\ UNCHANGED <<usage, quota, leads, now>>
    /\ UNCHANGED <<scheduler, adapter>>

ExecuteCampaign == execute_campaign(SchedProc)

(***************************************************************************)
(* _execute_campaign, lines 136-153: the pipeline returned its result.     *)
(***************************************************************************)
execute_finish(p) ==
    /\ task[p].kind = "tick"
    /\ task[p].campaign # ""
    /\ run[p].pc = "done"
    /\ LET k == task[p].campaign
           n == task[p].execution
           leads_generated == leads_in_result(run[p])
       IN  /\ executions' = [executions EXCEPT ![n] = mark_completed(@, leads_generated)]
           /\ campaigns' = [campaigns EXCEPT ![k] = update_after_run(@, leads_generated, now)]
    /\ run' = [run EXCEPT ![p] = IdleRun]
    /\ task' = [task EXCEPT ![p] = next_in_tick(@)]
    /\ UNCHANGED <<usage, quota, leads, now>>
    /\ UNCHANGED <<scheduler, adapter>>

ExecuteFinish == execute_finish(SchedProc)

(***************************************************************************)
(* CampaignExecutionService.cancel_running_executions, lines 295-316:      *)
(* every execution of the campaign that is 'running' becomes 'cancelled'.  *)
(***************************************************************************)
cancel_running_executions(log, campaign_id) ==
    [n \in 1..Len(log) |->
        IF log[n].campaign_id = campaign_id /\ log[n].status = "running"
        THEN [log[n] EXCEPT !.status = "cancelled"]
        ELSE log[n]]

CancelRunningExecutions(k) ==
    /\ executions' = cancel_running_executions(executions, k)
    /\ executions' # executions
    /\ UNCHANGED <<usage, quota, leads, campaigns, now, run, task>>
    /\ UNCHANGED <<scheduler, adapter>>

(***************************************************************************)
(* POST /campaigns/<id>/run (run_campaign_now), lines 235-265 and          *)
(* 267-290.                                                                *)
(***************************************************************************)
run_campaign_now(p, k) ==
    /\ p \in WebProcs
    /\ task[p].kind = "idle"
    /\ k \in DOMAIN campaigns
    /\ campaigns[k].status = "active"
    /\ Len(executions) < MaxExecutions
    /\ LET c == campaigns[k]
           e == new_execution(k)
           n == Len(executions) + 1
       IN  \/ /\ executions' = Append(executions, e)
              /\ run' = [run EXCEPT ![p] = lead_generator_call(c, c.max_leads_per_run)]
              /\ task' = [task EXCEPT ![p] =
                            [IdleTask EXCEPT !.kind = "run_now", !.campaign = k,
                                             !.execution = n]]
           \/ /\ executions' = Append(executions, mark_failed(e, "error"))
              /\ UNCHANGED <<run, task>>
    /\ UNCHANGED <<usage, quota, leads, campaigns, now>>
    /\ UNCHANGED <<scheduler, adapter>>

RunCampaignNow(p, k) ==
    /\ Idle
    /\ run_campaign_now(p, k)

RunNowFinish(p) ==
    /\ task[p].kind = "run_now"
    /\ run[p].pc = "done"
    /\ LET k == task[p].campaign
           n == task[p].execution
           leads_generated == leads_in_result(run[p])
       IN  /\ executions' = [executions EXCEPT ![n] = mark_completed(@, leads_generated)]
           /\ campaigns' = [campaigns EXCEPT ![k] = update_after_run(@, leads_generated, now)]
    /\ run' = [run EXCEPT ![p] = IdleRun]
    /\ task' = [task EXCEPT ![p] = IdleTask]
    /\ UNCHANGED <<usage, quota, leads, now>>
    /\ UNCHANGED <<scheduler, adapter>>

(***************************************************************************)
(* POST /campaigns (create_campaign), lines 45-68, at time t.  criteria    *)
(* keeps the min_score of the stored criteria.                             *)
(***************************************************************************)
create_campaign(client_id, data, t) ==
    LET c == [client_id |-> client_id, status |-> "active",
              frequency |-> data.frequency,
              frequency_value |-> data.frequency_value,
              frequency_unit |-> data.frequency_unit,
              preferred_time |-> data.preferred_time,
              max_leads_per_run |-> data.max_leads_per_run,
              max_leads_total |-> data.max_leads_total,
              total_leads_generated |-> 0,
              last_run_at |-> None, next_run_at |-> None,
              min_score |-> data.min_score]
    IN  [c EXCEPT !.next_run_at = calculate_next_run(c, t)]

(***************************************************************************)
(* PUT /campaigns/<id> (update_campaign), lines 123-147.  A key that is    *)
(* not in the payload is Absent (or "" for a text field).                  *)
(***************************************************************************)
Absent == -2

update_campaign(c, data, t) ==
    LET c1 == [c EXCEPT
                 !.frequency = IF data.frequency # "" THEN data.frequency ELSE @,
                 !.frequency_value =
                     IF data.frequency_value # Absent THEN data.frequency_value ELSE @,
                 !.frequency_unit =
                     IF data.frequency_unit # "" THEN data.frequency_unit ELSE @,
                 !.max_leads_per_run =
                     IF data.max_leads_per_run # Absent THEN data.max_leads_per_run ELSE @,
                 !.max_leads_total =
                     IF data.max_leads_total # Absent THEN data.max_leads_total ELSE @,
                 !.preferred_time =
                     IF data.preferred_time # Absent THEN data.preferred_time ELSE @]
    IN  IF \/ data.frequency # "" \/ data.frequency_value # Absent
           \/ data.frequency_unit # "" \/ data.preferred_time # Absent
        THEN [c1 EXCEPT !.next_run_at = calculate_next_run(c1, t)]
        ELSE c1

NoChange ==
    [frequency |-> "", frequency_value |-> Absent, frequency_unit |-> "",
     max_leads_per_run |-> Absent, max_leads_total |-> Absent,
     preferred_time |-> Absent]

MaxCeiling == 2     \* largest max_leads_total

UpdatePayloads ==
    {[NoChange EXCEPT !.max_leads_total = v] : v \in {None} \cup 1..MaxCeiling}
    \cup {[NoChange EXCEPT !.frequency = "custom", !.frequency_value = 1,
                           !.frequency_unit = "hour"]}

UpdateCampaign(k) ==
    /\ Idle
    /\ k \in DOMAIN campaigns
    /\ \E data \in UpdatePayloads :
          campaigns' = [campaigns EXCEPT ![k] = update_campaign(@, data, now)]
    /\ UNCHANGED <<usage, quota, leads, executions, now, run, task>>
    /\ UNCHANGED <<scheduler, adapter>>

(***************************************************************************)
(* CampaignScheduler.pause_campaign and resume_campaign, as the routes     *)
(* POST /campaigns/<id>/pause and /resume call and commit them.            *)
(***************************************************************************)
pause_campaign(c) == [c EXCEPT !.status = "paused", !.next_run_at = None]

resume_whatever_status(c, t) ==
    LET c1 == [c EXCEPT !.status = "active"]
    IN  [c1 EXCEPT !.next_run_at = calculate_next_run(c1, t)]

resume_campaign(c, t) ==
    IF c.status = "paused"
    THEN LET c1 == [c EXCEPT !.status = "active"]
         IN  [c1 EXCEPT !.next_run_at = calculate_next_run(c1, t)]
    ELSE c

(***************************************************************************)
(* What resume_campaign returns to the route: True only for a paused       *)
(* campaign.                                                               *)
(***************************************************************************)
resume_campaign_returns(c) == c.status = "paused"

PauseCampaign(k) ==
    /\ Idle
    /\ k \in DOMAIN campaigns
    /\ campaigns' = [campaigns EXCEPT ![k] = pause_campaign(@)]
    /\ UNCHANGED <<usage, quota, leads, executions, now, run, task>>
    /\ UNCHANGED <<scheduler, adapter>>

ResumeCampaign(k) ==
    /\ Idle
    /\ k \in DOMAIN campaigns
    /\ campaigns' = [campaigns EXCEPT ![k] = resume_campaign(@, now)]
    /\ UNCHANGED <<usage, quota, leads, executions, now, run, task>>
    /\ UNCHANGED <<scheduler, adapter>>

(***************************************************************************)
(* The clock: an hour passes between two handlers.                         *)
(***************************************************************************)
AdvanceClock ==
    /\ Idle
    /\ now + Hour <= MaxTime * Hour
    /\ now' = now + Hour
    /\ UNCHANGED <<usage, quota, leads, campaigns, executions, run, task>>
    /\ UNCHANGED <<scheduler, adapter>>


(***************************************************************************)
(* Initial stores.  Lead rows are only ever written by the pipeline, from  *)
(* addresses the search adapter stripped, so a stored address has no       *)
(* surrounding blanks; it keeps the case the provider sent.                *)
(***************************************************************************)
StoredAnn ==
    [client_id |-> "c1", campaign_id |-> "", email |-> <<"A","@","x",".","c","o">>,
     score |-> 60]

InitStores == {<<>>, <<StoredAnn>>}

NoCampaigns == [k \in {} |-> 0]

(***************************************************************************)
(* The provider adapters: ApolloAPIClient (services/apollo_client.py),     *)
(* HunterAPIClient (services/hunter_client.py) and LinkedInAPIClient       *)
(* (services/linkedin_client.py).  Each is one object per process          *)
(* (get_apollo_client, get_hunter_client, get_linkedin_client) that the    *)
(* request workers and the scheduler thread call without a lock.           *)
(*                                                                         *)
(* Time is counted in ticks of 0.1 second.  The object keeps               *)
(* last_request_time; what _rate_limit reads is the time since it, kept    *)
(* here as `since_stamp`, which stops counting at the minimum interval.    *)
(* `since_send` is the time since the latest session.post/get, `gap` the   *)
(* time that lay between the latest two of them, `new_day` whether         *)
(* today's date is later than quota_reset_date.                            *)
(***************************************************************************)
Providers == {"apollo", "hunter", "linkedin"}

AdapterCallers == {"web1", SchedProc}

MaxRequests == 2    \* the quota ceiling of an adapter, scaled down

min_request_interval(provider) == IF provider = "hunter" THEN 2 ELSE 1

quota_ceiling(provider) == MaxRequests

new_client(provider) ==
    [provider |-> provider,
     since_stamp |-> min_request_interval(provider),
     since_send |-> min_request_interval(provider),
     gap |-> min_request_interval(provider),
     requests_made |-> 0,
     new_day |-> FALSE,
     call |-> [c \in AdapterCallers |->
                 [pc |-> "idle", sleep |-> 0, result |-> "none"]]]

(***************************************************************************)
(* A caller enters _make_request (_make_authenticated_request of           *)
(* LinkedIn, which first raises when no valid access token is stored).     *)
(* Apollo and LinkedIn start with _check_quota, Hunter with _rate_limit.   *)
(***************************************************************************)
first_step(provider) == IF provider = "hunter" THEN "rate_limit" ELSE "check_quota"

MakeRequest(c) ==
    /\ adapter.call[c].pc = "idle"
    /\ adapter.requests_made <= quota_ceiling(adapter.provider)
    /\ \/ adapter' = [adapter EXCEPT !.call[c] =
                         [pc |-> first_step(adapter.provider), sleep |-> 0,
                          result |-> "none"]]
       \/ /\ adapter.provider = "linkedin"
          /\ adapter' = [adapter EXCEPT !.call[c] =
                            [pc |-> "idle", sleep |-> 0, result |-> "error"]]
    /\ UNCHANGED <<usage, quota, leads, campaigns, executions, now, scheduler, run, task>>

(***************************************************************************)
(* _check_quota: a new day resets the counter; a counter at or above the   *)
(* ceiling raises the quota error before anything is sent.                 *)
(***************************************************************************)
CheckQuota(c) ==
    /\ adapter.call[c].pc = "check_quota"
    /\ LET made == IF adapter.new_day THEN 0 ELSE adapter.requests_made
       IN  adapter' = [adapter EXCEPT
                          !.requests_made = made,
                          !.new_day = FALSE,
                          !.call[c] = IF made >= quota_ceiling(adapter.provider)
                                      THEN [pc |-> "idle", sleep |-> 0,
                                            result |-> "quota_error"]
                                      ELSE [pc |-> "rate_limit", sleep |-> 0,
                                            result |-> "none"]]
    /\ UNCHANGED <<usage, quota, leads, campaigns, executions, now, scheduler, run, task>>

(***************************************************************************)
(* _rate_limit up to its sleep: the read of the clock and of               *)
(* last_request_time, and the decision to sleep for the rest of the        *)
(* interval.                                                               *)
(***************************************************************************)
RateLimit(c) ==
    /\ adapter.call[c].pc = "rate_limit"
    /\ LET interval == min_request_interval(adapter.provider)
           time_since_last == adapter.since_stamp
       IN  adapter' = [adapter EXCEPT !.call[c] =
                          IF time_since_last < interval
                          THEN [pc |-> "sleeping", sleep |-> interval - time_since_last,
                                result |-> "none"]
                          ELSE [pc |-> "send", sleep |-> 0, result |-> "none"]]
    /\ UNCHANGED <<usage, quota, leads, campaigns, executions, now, scheduler, run, task>>

(***************************************************************************)
(* The rest of the attempt: last_request_time = time.time(), then the      *)
(* request is sent.  The provider answers 200, 429 or the request raises.  *)
(* Apollo and LinkedIn count every answered request, Hunter counts the     *)
(* requests answered 200.  After a 429 the caller sleeps Retry-After.      *)
(***************************************************************************)
Send(c) ==
    /\ adapter.call[c].pc = "send"
    /\ \E answer \in {"ok", "throttled", "error"} :
          adapter' = [adapter EXCEPT
                         !.since_stamp = 0,
                         !.gap = adapter.since_send,
                         !.since_send = 0,
                         !.requests_made =
                             IF \/ answer = "ok"
                                \/ answer = "throttled" /\ adapter.provider # "hunter"
                             THEN @ + 1 ELSE @,
                         !.call[c] = IF answer = "throttled"
                                     THEN [pc |-> "throttled", sleep |-> 0,
                                           result |-> "none"]
                                     ELSE [pc |-> "idle", sleep |-> 0,
                                           result |-> answer]]
    /\ UNCHANGED <<usage, quota, leads, campaigns, executions, now, scheduler, run, task>>

(***************************************************************************)
(* After the sleep of the 429 branch: return self._make_request(...), the  *)
(* same request from the start, with no count of the attempts (LinkedIn    *)
(* raises here when the access token has expired meanwhile).               *)
(***************************************************************************)
Retry(c) ==
    /\ adapter.call[c].pc = "throttled"
    /\ \/ adapter' = [adapter EXCEPT !.call[c].pc = first_step(adapter.provider)]
       \/ /\ adapter.provider = "linkedin"
          /\ adapter' = [adapter EXCEPT !.call[c] =
                            [pc |-> "idle", sleep |-> 0, result |-> "error"]]
    /\ UNCHANGED <<usage, quota, leads, campaigns, executions, now, scheduler, run, task>>

(***************************************************************************)
(* A tick of 0.1 second passes; time.sleep of _rate_limit returns when     *)
(* its time is over.  No tick passes between the assignment of             *)
(* last_request_time and the request that follows it.                      *)
(***************************************************************************)
ClockTick ==
    /\ \A c \in AdapterCallers : adapter.call[c].pc # "send"
    /\ LET interval == min_request_interval(adapter.provider)
           later(t) == IF t < interval THEN t + 1 ELSE t
       IN  adapter' = [adapter EXCEPT
                          !.since_stamp = later(@),
                          !.since_send = later(@),
                          !.call = [c \in AdapterCallers |->
                                       IF adapter.call[c].pc # "sleeping" THEN adapter.call[c]
                                       ELSE IF adapter.call[c].sleep > 1
                                            THEN [adapter.call[c] EXCEPT !.sleep = @ - 1]
                                            ELSE [pc |-> "send", sleep |-> 0,
                                                  result |-> "none"]]]
    /\ UNCHANGED <<usage, quota, leads, campaigns, executions, now, scheduler, run, task>>

(***************************************************************************)
(* The date changes: datetime.now().date() is later than                   *)
(* quota_reset_date until the next _check_quota.                           *)
(***************************************************************************)
Midnight ==
    /\ ~ adapter.new_day
    /\ adapter' = [adapter EXCEPT !.new_day = TRUE]
    /\ UNCHANGED <<usage, quota, leads, campaigns, executions, now, scheduler, run, task>>

(***************************************************************************)
(* init_campaign_scheduler (lines 322-331) starts the scheduler when the   *)
(* application is created: running is True and the first loop thread is    *)
(* at the head of its loop.  A loop thread is "none" before it is          *)
(* started, "check" at the while of _run_scheduler, "job" inside           *)
(* schedule.run_pending, "backoff" in the except branch and "ended" after  *)
(* the loop; errors counts the errors the loop has logged.                 *)
(***************************************************************************)
StartedScheduler ==
    [running |-> TRUE, scheduler_thread |-> SchedProc, errors |-> 0,
     loop |-> [p \in LoopThreads |-> IF p = SchedProc THEN "check" ELSE "none"]]

InitThreads ==
    /\ scheduler = StartedScheduler
    /\ adapter = new_client("apollo")
    /\ run = [p \in Procs |-> IdleRun]
    /\ task = [p \in Procs |-> IdleTask]
    /\ executions = <<>>
    /\ now = 0

(***************************************************************************)
(* Sequential pipeline runs: one request worker serving POST /generate,    *)
(* one request at a time.                                                  *)
(***************************************************************************)
Init ==
    /\ InitThreads
    /\ quota = [c \in Clients |-> MaxQuota]
    /\ usage \in [Clients -> 0..MaxQuota]
    /\ \A c \in Clients : usage[c] <= quota[c]
    /\ leads \in InitStores
    /\ campaigns = NoCampaigns

PipelineStep(p) ==
    \/ Filter(p)
    \/ Save(p)
    \/ IncrementRead(p)
    \/ IncrementWrite(p)

Next ==
    \/ GenerateRequest("web1")
    \/ Search("web1")
    \/ Enhance("web1")
    \/ PipelineStep("web1")
    \/ UpdateStats("web1")
    \/ GenerateReturn("web1")
    \/ GetLeadSuggestions("web1")
    \/ SuggestionsReturn("web1")

Spec == Init /\ [][Next]_vars

(***************************************************************************)
(* Concurrent pipeline runs: two request workers serve POST /generate at   *)
(* the same time, their steps interleaved.                                 *)
(***************************************************************************)
ConcInit ==
    /\ InitThreads
    /\ quota = [c \in Clients |-> MaxQuota - 1]
    /\ usage \in [Clients -> 0..1]
    /\ leads = <<>>
    /\ campaigns = NoCampaigns

ConcurrentGenerateRequest(p) == generate_request(p, PlainPayloads({MaxRequest}))

ConcurrentSearch(p) == search(p, {<<PAnn>>, <<PAnn, PBob>>})

Verified == {v \in VerifyOutcomes : v.result = "deliverable"}

ConcurrentEnhance(p) == enhance(p, Verified)

ConcNext ==
    \E p \in WebProcs :
        \/ ConcurrentGenerateRequest(p)
        \/ ConcurrentSearch(p)
        \/ ConcurrentEnhance(p)
        \/ PipelineStep(p)
        \/ GenerateReturn(p)

ConcSpec == ConcInit /\ [][ConcNext]_vars

(***************************************************************************)
(* Campaigns: one campaign of client c1, created at time 0 by              *)
(* POST /campaigns; the scheduler thread ticks, the client runs, edits,    *)
(* pauses and resumes the campaign, one handler at a time.                 *)
(***************************************************************************)
CampaignPayloads ==
    {[frequency |-> fr[1], frequency_value |-> 1, frequency_unit |-> fr[2],
      preferred_time |-> None, max_leads_per_run |-> per_run,
      max_leads_total |-> total, min_score |-> 20] :
        fr \in {<<"daily", "day">>, <<"custom", "hour">>},
        per_run \in 1..MaxRequest,
        total \in {None} \cup 1..MaxCeiling}

SchedInit ==
    /\ InitThreads
    /\ quota = [c \in Clients |-> MaxQuota]
    /\ usage = [c \in Clients |-> MaxQuota - 2]
    /\ leads = <<>>
    /\ \E data \in CampaignPayloads :
          campaigns = [k \in {"k1"} |-> create_campaign("c1", data, 0)]

CampaignSearch(p) == search(p, {<<PAnn>>, <<PAnn, PBob>>})

SchedNext ==
    \/ Tick
    \/ ExecuteCampaign
    \/ ExecuteFinish
    \/ RunCampaignNow("web1", "k1")
    \/ RunNowFinish("web1")
    \/ UpdateCampaign("k1")
    \/ PauseCampaign("k1")
    \/ ResumeCampaign("k1")
    \/ AdvanceClock
    \/ \E p \in {SchedProc, "web1"} :
          CampaignSearch(p) \/ ConcurrentEnhance(p) \/ PipelineStep(p)

SchedSpec == SchedInit /\ [][SchedNext]_vars


(***************************************************************************)
(*                              Properties                                 *)
(***************************************************************************)

(***************************************************************************)
(* C1.  Quota pre-check: a call of generate_leads for an existing client   *)
(* with usage + max_results > quota returns a failure result, and in that  *)
(* run no provider request was sent (no search, no verification), no Lead  *)
(* row was written and the usage counter is what it was.                   *)
(***************************************************************************)
C1_QuotaPrecheck ==
    \A p \in Procs :
        LET f == run[p]
        IN  (/\ f.pc # "idle"
             /\ f.client_id \in Clients
             /\ f.usage_before + f.max_results > f.quota_before)
            => /\ f.pc = "done"
               /\ f.result = "failure"
               /\ f.searches = 0
               /\ f.verifications = 0
               /\ leads = f.leads_before
               /\ usage[f.client_id] = f.usage_before

C1_QuotaExceededRun ==
    \E p \in Procs :
        /\ run[p].pc = "done"
        /\ run[p].step = "quota"
        /\ run[p].usage_before + run[p].max_results > run[p].quota_before

(***************************************************************************)
(* C2.  Client quota invariant: from a state with usage <= quota, every    *)
(* state reached by sequentially executed pipeline runs has                *)
(* api_usage_current <= api_quota_monthly.                                 *)
(***************************************************************************)
C2_UsageWithinQuota == \A c \in Clients : usage[c] <= quota[c]

(***************************************************************************)
(* C3.  Two pipeline runs of one client that execute concurrently from     *)
(* the same usage value and both succeed lose no update: the usage         *)
(* counter ends at the initial value plus the leads saved by both, and it  *)
(* does not exceed the quota.                                              *)
(***************************************************************************)
C3_NoLostUpdate ==
    \A p \in WebProcs, q \in WebProcs :
        (/\ p # q
         /\ run[p].pc = "done" /\ run[p].result = "success"
         /\ run[q].pc = "done" /\ run[q].result = "success"
         /\ run[p].client_id = run[q].client_id
         /\ run[p].usage_before = run[q].usage_before)
        => /\ usage[run[p].client_id] = run[p].usage_before + run[p].saved + run[q].saved
           /\ usage[run[p].client_id] <= quota[run[p].client_id]

(***************************************************************************)
(* C4.  After a successful pipeline run the usage counter is its value     *)
(* before the run plus the number of leads the run actually saved, which   *)
(* is the number of rows the run added to the store.                       *)
(***************************************************************************)
C4_UsageCountsSaved ==
    \A p \in Procs :
        LET f == run[p]
        IN  (f.pc = "done" /\ f.result = "success")
            => /\ usage[f.client_id] = f.usage_before + f.saved
               /\ Len(leads) = Len(f.leads_before) + f.saved

C4_SavedFewerThanRequested ==
    \E p \in Procs :
        /\ run[p].pc = "done"
        /\ run[p].result = "success"
        /\ run[p].saved >= 1
        /\ run[p].saved < run[p].max_results

(***************************************************************************)
(* C5.  Lead uniqueness: under sequentially executed pipeline runs no two  *)
(* Lead rows of one client share a normalized (lower-cased, trimmed)       *)
(* email, so the rows of one run neither repeat an address nor repeat one  *)
(* the client already had.                                                 *)
(***************************************************************************)
C5_LeadUniqueness ==
    \A i \in 1..Len(leads), j \in 1..Len(leads) :
        (i # j /\ leads[i].client_id = leads[j].client_id)
        => strip(lower(leads[i].email)) # strip(lower(leads[j].email))

C5_DuplicatesDropped ==
    \E p \in Procs :
        /\ run[p].pc = "done"
        /\ run[p].result = "success"
        /\ run[p].leads_before # <<>>
        /\ run[p].raw >= 2
        /\ run[p].filtered < run[p].raw
        /\ run[p].saved >= 1

(***************************************************************************)
(* C6.  A failed commit of the batch of leads is rolled back entirely: no  *)
(* Lead row of that run remains, the usage counter is unchanged, and       *)
(* generate_leads returns a failure result.                                *)
(***************************************************************************)
C6_CommitFailureRollsBack ==
    \A p \in Procs :
        LET f == run[p]
        IN  (f.pc = "done" /\ f.step = "save")
            => /\ f.result = "failure"
               /\ leads = f.leads_before
               /\ usage[f.client_id] = f.usage_before

C6_CommitFailed ==
    \E p \in Procs :
        /\ run[p].pc = "done"
        /\ run[p].step = "save"
        /\ Len(run[p].cands) >= 1

(***************************************************************************)
(* C7.  No persisted partial state on failure: when generate_leads         *)
(* returns a failure result because a step after the quota check failed,   *)
(* the client's Lead rows and usage counter are what they were before the  *)
(* call.                                                                   *)
(***************************************************************************)
C7_NoPartialState ==
    \A p \in Procs :
        LET f == run[p]
        IN  (f.pc = "done" /\ f.result = "failure" /\ f.step \notin {"client", "quota"})
            => /\ leads = f.leads_before
               /\ usage[f.client_id] = f.usage_before

(***************************************************************************)
(* C8.  When the pipeline run of a scheduled campaign returns a failure    *)
(* result, the scheduler marks the execution failed with a non-empty       *)
(* error message and leaves the campaign active with next_run_at,          *)
(* last_run_at and total_leads_generated unchanged.                        *)
(***************************************************************************)
C8_ScheduledFailureMarked ==
    [][(ExecuteFinish /\ run[SchedProc].result = "failure")
       => LET k == task[SchedProc].campaign
              n == task[SchedProc].execution
          IN  /\ executions'[n].status = "failed"
              /\ executions'[n].error_message # ""
              /\ campaigns'[k].status = "active"
              /\ campaigns'[k].next_run_at = campaigns[k].next_run_at
              /\ campaigns'[k].last_run_at = campaigns[k].last_run_at
              /\ campaigns'[k].total_leads_generated = campaigns[k].total_leads_generated]_vars

(***************************************************************************)
(* C9.  A campaign with a total ceiling becomes completed in the very      *)
(* step in which a run brings total_leads_generated up to the ceiling,     *)
(* and while its total is at or above the ceiling no step of a scheduler   *)
(* tick creates a CampaignExecution for it.                                *)
(***************************************************************************)
HasCeiling(c) == c.max_leads_total # None /\ c.max_leads_total > 0

C10_CompletedIffCeiling ==
    \A k \in DOMAIN campaigns :
        HasCeiling(campaigns[k])
        => (campaigns[k].status = "completed"
            <=> campaigns[k].total_leads_generated >= campaigns[k].max_leads_total)

(***************************************************************************)
(* C11.  Every scheduled run invokes the pipeline with max_results equal   *)
(* to min(max_leads_per_run, max_leads_total - total_leads_generated)      *)
(* when the campaign has a total ceiling, and to max_leads_per_run         *)
(* otherwise.                                                              *)
(***************************************************************************)
C11_EffectiveMaxResults ==
    /\ effective_max_results([max_leads_per_run |-> 50, max_leads_total |-> 100,
                               total_leads_generated |-> 90]) = 10
    /\ (task[SchedProc].kind = "tick" /\ task[SchedProc].campaign # "")
       => LET c == campaigns[task[SchedProc].campaign]
              remaining == c.max_leads_total - c.total_leads_generated
          IN  run[SchedProc].max_results =
                 IF HasCeiling(c) /\ remaining < c.max_leads_per_run
                 THEN remaining
                 ELSE c.max_leads_per_run

C11_RunClippedByCeiling ==
    /\ task[SchedProc].kind = "tick"
    /\ task[SchedProc].campaign # ""
    /\ LET c == campaigns[task[SchedProc].campaign]
       IN  /\ HasCeiling(c)
           /\ c.total_leads_generated >= 1
           /\ c.max_leads_total - c.total_leads_generated < c.max_leads_per_run
           /\ run[SchedProc].max_results = c.max_leads_total - c.total_leads_generated

(***************************************************************************)
(* Scheduling functions on stored campaigns: two campaigns with any        *)
(* stored frequency policy, status, last run and next run; the clock       *)
(* moves and Campaign.calculate_next_run is applied to them.  The routes   *)
(* store frequency, frequency_value and frequency_unit as the payload      *)
(* carries them.                                                           *)
(***************************************************************************)
MaxFrequencyValue == 2  \* largest stored frequency_value

FrequencyPolicies ==
    {<<fr, 1, "day">> : fr \in {"daily", "weekly", "monthly", "yearly"}}
    \cup {<<"custom", v, u>> : v \in 0..MaxFrequencyValue,
                               u \in {"day", "week", "hour", "month"}}

stored_campaign(policy, status, last_run_at, next_run_at) ==
    [client_id |-> "c1", status |-> status,
     frequency |-> policy[1], frequency_value |-> policy[2],
     frequency_unit |-> policy[3], preferred_time |-> None,
     max_leads_per_run |-> 1, max_leads_total |-> None,
     total_leads_generated |-> 0,
     last_run_at |-> last_run_at, next_run_at |-> next_run_at, min_score |-> 20]

CalcInit ==
    /\ InitThreads
    /\ quota = [c \in Clients |-> MaxQuota]
    /\ usage = [c \in Clients |-> 0]
    /\ leads = <<>>
    /\ \E policy \in FrequencyPolicies,
          status \in {"active", "paused", "completed"},
          last_run_at \in {None, 0, 9 * Hour},
          next_run_at \in {None, FirstRunDelay, Hour},
          status2 \in {"active", "paused"},
          next_run_at2 \in {None, Hour, 2 * Hour} :
          campaigns = [k \in CampaignIds |->
              IF k = "k1"
              THEN stored_campaign(policy, status, last_run_at, next_run_at)
              ELSE stored_campaign(<<"daily", 1, "day">>, status2, None, next_run_at2)]

CalculateNextRun(k) ==
    /\ Idle
    /\ k \in DOMAIN campaigns
    /\ campaigns' = [campaigns EXCEPT ![k].next_run_at = calculate_next_run(campaigns[k], now)]
    /\ UNCHANGED <<usage, quota, leads, executions, now, run, task>>
    /\ UNCHANGED <<scheduler, adapter>>

CalcNext ==
    \/ \E k \in CampaignIds : CalculateNextRun(k)
    \/ AdvanceClock

CalcSpec == CalcInit /\ [][CalcNext]_vars

(***************************************************************************)
(* C18.  is_ready_to_run holds for a campaign exactly when its status is   *)
(* active and its next_run_at is unset or not later than the current       *)
(* time, and get_due_campaigns returns exactly the campaigns for which     *)
(* is_ready_to_run holds.                                                  *)
(***************************************************************************)
C18_DueIffReady ==
    LET due == get_due_campaigns(campaigns, now)
    IN  /\ \A k \in DOMAIN campaigns :
              is_ready_to_run(campaigns[k], now)
              <=> /\ campaigns[k].status = "active"
                  /\ (campaigns[k].next_run_at = None \/ campaigns[k].next_run_at <= now)
        /\ {due[i] : i \in 1..Len(due)}
              = {k \in DOMAIN campaigns : is_ready_to_run(campaigns[k], now)}
        /\ \A i \in 1..Len(due), j \in 1..Len(due) : i # j => due[i] # due[j]

C18_OneDueOneWaiting ==
    /\ get_due_campaigns(campaigns, now) = <<"k2">>
    /\ campaigns["k1"].status = "active"
    /\ campaigns["k1"].next_run_at > now
    /\ campaigns["k2"].next_run_at = now
    /\ now > 0

(***************************************************************************)
(* C19.  For a campaign that has run before, calculate_next_run gives      *)
(* last_run_at plus 1 day for daily, 7 days for weekly, 30 days for        *)
(* monthly, frequency_value days, weeks or hours for custom with unit      *)
(* day, week or hour, and 1 day for a custom policy with another unit;     *)
(* daily with the last run at 09:00 of day D gives 09:00 of day D + 1.     *)
(***************************************************************************)
C19_NextRunInterval ==
    /\ calculate_next_run(stored_campaign(<<"daily", 1, "day">>, "active",
                                          3 * Day + 9 * Hour, None), 4 * Day)
          = 4 * Day + 9 * Hour
    /\ \A k \in DOMAIN campaigns :
          LET c == campaigns[k]
              next == calculate_next_run(c, now)
          IN  c.last_run_at # None
              => /\ c.frequency = "daily" => next = c.last_run_at + 1440
                 /\ c.frequency = "weekly" => next = c.last_run_at + 7 * 1440
                 /\ c.frequency = "monthly" => next = c.last_run_at + 30 * 1440
                 /\ (c.frequency = "custom" /\ c.frequency_unit = "day")
                       => next = c.last_run_at + c.frequency_value * 1440
                 /\ (c.frequency = "custom" /\ c.frequency_unit = "week")
                       => next = c.last_run_at + c.frequency_value * 7 * 1440
                 /\ (c.frequency = "custom" /\ c.frequency_unit = "hour")
                       => next = c.last_run_at + c.frequency_value * 60
                 /\ (c.frequency = "custom"
                       /\ c.frequency_unit \notin {"day", "week", "hour"})
                       => next = c.last_run_at + 1440

C19_WeeklyRecalculated ==
    /\ campaigns["k1"].frequency = "weekly"
    /\ campaigns["k1"].last_run_at = 9 * Hour
    /\ campaigns["k1"].next_run_at = 9 * Hour + 7 * Day

(***************************************************************************)
(* C20.  For a campaign that has run before and every stored frequency     *)
(* policy, calculate_next_run gives a next_run_at strictly later than      *)
(* last_run_at.                                                            *)
(***************************************************************************)
C20_NextRunLater ==
    \A k \in DOMAIN campaigns :
        campaigns[k].last_run_at # None
        => calculate_next_run(campaigns[k], now) > campaigns[k].last_run_at

(***************************************************************************)
(* A campaign row whose status is 'cancelled' (the fourth status of the    *)
(* column, campaign.py line 21) under the scheduler and the campaign       *)
(* routes.                                                                 *)
(***************************************************************************)
CancelledInit ==
    /\ InitThreads
    /\ quota = [c \in Clients |-> MaxQuota]
    /\ usage = [c \in Clients |-> MaxQuota - 2]
    /\ leads = <<>>
    /\ \E data \in CampaignPayloads :
          campaigns = [k \in {"k1"} |->
              [create_campaign("c1", data, 0) EXCEPT !.status = "cancelled"]]

CancelledSpec == CancelledInit /\ [][SchedNext]_vars

TickPayloads ==
    {d \in CampaignPayloads : d.frequency = "daily" /\ d.max_leads_per_run = 1}

TickInit ==
    /\ InitThreads
    /\ quota = [c \in Clients |-> MaxQuota]
    /\ usage = [c \in Clients |-> 0]
    /\ leads = <<>>
    /\ \E d1 \in TickPayloads, d2 \in TickPayloads :
          campaigns = [k \in CampaignIds |->
              create_campaign("c1", IF k = "k1" THEN d1 ELSE d2, 0)]

TickNext ==
    \/ Tick
    \/ ExecuteCampaign
    \/ ExecuteFinish
    \/ AdvanceClock
    \/ CampaignSearch(SchedProc)
    \/ ConcurrentEnhance(SchedProc)
    \/ PipelineStep(SchedProc)

TickSpec == TickInit /\ [][TickNext]_vars

OverlapInit ==
    /\ InitThreads
    /\ quota = [c \in Clients |-> MaxQuota]
    /\ usage = [c \in Clients |-> 0]
    /\ leads = <<>>
    /\ \E data \in TickPayloads :
          campaigns = [k \in {"k1"} |-> create_campaign("c1", data, 0)]

OverlapNext ==
    \/ check_and_run_campaigns(SchedProc) /\ UNCHANGED <<scheduler, adapter>>
    \/ ExecuteCampaign
    \/ ExecuteFinish
    \/ run_campaign_now("web1", "k1")
    \/ RunNowFinish("web1")
    \/ CancelRunningExecutions("k1")
    \/ AdvanceClock
    \/ \E p \in {SchedProc, "web1"} :
          CampaignSearch(p) \/ ConcurrentEnhance(p) \/ PipelineStep(p)

OverlapSpec == OverlapInit /\ [][OverlapNext]_vars

(***************************************************************************)
(* C12.  Execution lifecycle: an execution starts as 'running', reaches    *)
(* one of completed, failed and cancelled, and once it has one of these    *)
(* terminal statuses its status never changes again, also when             *)
(* cancel_running_executions interleaves with the run of the execution.    *)
(***************************************************************************)
C12_TerminalStatusStays ==
    [][\A n \in 1..Len(executions) :
          /\ executions[n].status \in {"running", "completed", "failed", "cancelled"}
          /\ executions[n].status \in {"completed", "failed", "cancelled"}
                => executions'[n].status = executions[n].status]_vars

(***************************************************************************)
(* C13.  At most one execution of a campaign is 'running' at any time.     *)
(***************************************************************************)
C13_OneRunningExecution ==
    \A k \in DOMAIN campaigns :
        Cardinality({n \in 1..Len(executions) :
                        executions[n].campaign_id = k
                        /\ executions[n].status = "running"}) <= 1

(***************************************************************************)
(* The scheduler object: start_scheduler (lines 27-42), stop_scheduler     *)
(* (44-52), the loop of _run_scheduler (54-62) in each thread that         *)
(* start_scheduler created.  schedule.jobs holds the one job of            *)
(* start_scheduler while running is True; schedule.run_pending runs it in  *)
(* the thread that polls.                                                  *)
(***************************************************************************)
StartScheduler ==
    /\ ~ scheduler.running
    /\ \E p \in LoopThreads :
          /\ scheduler.loop[p] = "none"
          /\ scheduler' = [scheduler EXCEPT !.running = TRUE, !.scheduler_thread = p,
                                            !.loop[p] = "check"]
    /\ UNCHANGED <<usage, quota, leads, campaigns, executions, now, run, task, adapter>>

(***************************************************************************)
(* stop_scheduler: running becomes False and the caller joins the latest   *)
(* loop thread for at most 5 seconds.  A thread that sleeps (1 second      *)
(* between two polls, 5 seconds in the except branch) finds running False  *)
(* and ends within the join; a thread that is executing the campaigns of   *)
(* a tick may outlast it.                                                  *)
(***************************************************************************)
StopScheduler ==
    /\ scheduler.running
    /\ LET t == scheduler.scheduler_thread
       IN  scheduler' = [scheduler EXCEPT
                            !.running = FALSE,
                            !.loop[t] = IF task[t].kind = "tick" THEN @ ELSE "ended"]
    /\ UNCHANGED <<usage, quota, leads, campaigns, executions, now, run, task, adapter>>

(***************************************************************************)
(* One turn of the loop: while self.running, schedule.run_pending() runs   *)
(* the pending job, _check_and_run_campaigns, in this thread.              *)
(***************************************************************************)
RunPending(p) ==
    /\ scheduler.loop[p] = "check"
    /\ scheduler.running
    /\ check_and_run_campaigns(p)
    /\ scheduler' = [scheduler EXCEPT !.loop[p] = "job"]
    /\ UNCHANGED adapter

JobDone(p) ==
    /\ scheduler.loop[p] = "job"
    /\ task[p].kind = "idle"
    /\ scheduler' = [scheduler EXCEPT !.loop[p] = "check"]
    /\ UNCHANGED <<usage, quota, leads, campaigns, executions, now, run, task, adapter>>

(***************************************************************************)
(* The loop finds running False and the thread ends.                       *)
(***************************************************************************)
LoopEnd(p) ==
    /\ scheduler.loop[p] = "check"
    /\ ~ scheduler.running
    /\ scheduler' = [scheduler EXCEPT !.loop[p] = "ended"]
    /\ UNCHANGED <<usage, quota, leads, campaigns, executions, now, run, task, adapter>>

(***************************************************************************)
(* An exception reaches the try of the loop (lines 60-62), from            *)
(* run_pending before the job or after it: it is logged, the thread        *)
(* sleeps 5 seconds and goes back to the while.                            *)
(***************************************************************************)
loop_ends_on_exception(state) == "ended"

after_poll_exception(state) == "backoff"

MaxErrors == 1      \* errors of the loop that are followed

PollException(p) ==
    /\ scheduler.errors < MaxErrors
    /\ \/ scheduler.loop[p] = "check" /\ scheduler.running
       \/ scheduler.loop[p] = "job" /\ task[p].kind = "idle"
    /\ scheduler' = [scheduler EXCEPT !.loop[p] = after_poll_exception(@),
                                      !.errors = @ + 1]
    /\ UNCHANGED <<usage, quota, leads, campaigns, executions, now, run, task, adapter>>

Backoff(p) ==
    /\ scheduler.loop[p] = "backoff"
    /\ scheduler' = [scheduler EXCEPT !.loop[p] = "check"]
    /\ UNCHANGED <<usage, quota, leads, campaigns, executions, now, run, task, adapter>>

LoopSearch(p) == search(p, {<<PAnn>>})

LoopInit ==
    /\ InitThreads
    /\ quota = [c \in Clients |-> MaxQuota]
    /\ usage = [c \in Clients |-> 0]
    /\ leads = <<>>
    /\ \E data \in {d \in TickPayloads : d.max_leads_total = None} :
          campaigns = [k \in {"k1"} |-> create_campaign("c1", data, 0)]

PollNext ==
    \/ StartScheduler
    \/ StopScheduler
    \/ AdvanceClock
    \/ \E p \in LoopThreads :
          \/ RunPending(p) \/ JobDone(p) \/ LoopEnd(p) \/ PollException(p) \/ Backoff(p)
          \/ execute_campaign(p) \/ execute_finish(p)
          \/ LoopSearch(p) \/ ConcurrentEnhance(p) \/ PipelineStep(p)

PollSpec == LoopInit /\ [][PollNext]_vars

(***************************************************************************)
(* The same program with the scheduling the loop relies on: the sleep of   *)
(* the except branch returns and the thread goes back to the while.        *)
(***************************************************************************)
PollFair == PollSpec /\ \A p \in LoopThreads : WF_vars(Backoff(p))

Alive(p) == scheduler.loop[p] \in {"check", "job", "backoff"}

(***************************************************************************)
(* C14.  Ticks are serialized: under any sequence of start_scheduler and   *)
(* stop_scheduler calls, two executions of _check_and_run_campaigns never  *)
(* overlap and at most one loop thread of the scheduler is polling.        *)
(***************************************************************************)
C14_TicksSerialized ==
    /\ Cardinality({p \in Procs : task[p].kind = "tick"}) <= 1
    /\ Cardinality({p \in LoopThreads : Alive(p)}) <= 1

(***************************************************************************)
(* C16.  The loop survives its own failures: a loop thread ends only when  *)
(* the scheduler has been stopped, and after an exception in a poll cycle  *)
(* the thread is back at the head of its loop for the next cycle unless    *)
(* the scheduler is stopped.                                               *)
(***************************************************************************)
C16_LoopSurvives ==
    /\ [][\A p \in LoopThreads :
             (Alive(p) /\ ~ Alive(p)') => ~ scheduler'.running]_vars
    /\ \A p \in LoopThreads :
          (scheduler.loop[p] = "backoff")
             ~> (scheduler.loop[p] = "check" \/ ~ scheduler.running)

C16_TickAfterException ==
    /\ scheduler.errors >= 1
    /\ scheduler.running
    /\ scheduler.loop["sched2"] = "none"
    /\ scheduler.loop[SchedProc] = "job"
    /\ task[SchedProc].kind = "tick"
    /\ task[SchedProc].campaign = "k1"

(***************************************************************************)
(* C21.  calculate_next_run is idempotent: when next_run_at is the value   *)
(* an earlier call gave and no other field of the campaign has changed,    *)
(* a further call leaves next_run_at as it is, for campaigns that never    *)
(* ran and for campaigns that ran before.                                  *)
(***************************************************************************)
C21_Idempotent ==
    [][\A k \in DOMAIN campaigns :
          (/\ \E t \in {0, now} :
                 campaigns[k].next_run_at = calculate_next_run(campaigns[k], t)
           /\ campaigns'[k] = [campaigns[k] EXCEPT
                                  !.next_run_at = calculate_next_run(campaigns[k], now)])
          => campaigns'[k].next_run_at = campaigns[k].next_run_at]_vars

(***************************************************************************)
(* C22.  For every candidate the scoring engine has scored, the score is   *)
(* an integer in 0..100 and the sum of the points of the returned          *)
(* breakdown, clamped to 100, equals the score.                            *)
(***************************************************************************)
C22_BreakdownSumsToScore ==
    \A p \in Procs : \A i \in 1..Len(run[p].cands) :
        LET lead == run[p].cands[i]
            b == lead.score_breakdown
            pts(k) == IF k \in DOMAIN b THEN b[k] ELSE 0
            total == pts("email_present") + pts("email_verified") + pts("email_risky")
                     + pts("australian_email") + pts("phone_present")
                     + pts("linkedin_present") + pts("linkedin_valid")
                     + pts("company_present") + pts("optimal_company_size")
                     + pts("good_company_size")
        IN  lead.score # -1
            => /\ lead.score \in 0..100
               /\ lead.score = IF total < 100 THEN total ELSE 100

(***************************************************************************)
(* One adapter object and the two threads that call it: a request worker   *)
(* in a manual pipeline run and the scheduler thread in a tick.            *)
(***************************************************************************)
AdapterInit ==
    /\ scheduler = StartedScheduler
    /\ run = [p \in Procs |-> IdleRun]
    /\ task = [p \in Procs |-> IdleTask]
    /\ executions = <<>>
    /\ now = 0
    /\ quota = [c \in Clients |-> MaxQuota]
    /\ usage = [c \in Clients |-> 0]
    /\ leads = <<>>
    /\ campaigns = NoCampaigns
    /\ \E provider \in Providers : adapter = new_client(provider)

AdapterNext ==
    \/ ClockTick
    \/ Midnight
    \/ \E c \in AdapterCallers :
          \/ MakeRequest(c) \/ CheckQuota(c) \/ RateLimit(c) \/ Send(c) \/ Retry(c)

AdapterSpec == AdapterInit /\ [][AdapterNext]_vars

(***************************************************************************)
(* The same adapter with the scheduling the threads rely on: a thread      *)
(* that can take its next step takes it, and time passes.                  *)
(***************************************************************************)
AdapterFair ==
    /\ AdapterSpec
    /\ WF_vars(ClockTick)
    /\ \A c \in AdapterCallers :
          WF_vars(CheckQuota(c) \/ RateLimit(c) \/ Send(c) \/ Retry(c))

(***************************************************************************)
(* C23.  Every adapter enforces its quota ceiling: the request counter of  *)
(* the current period never exceeds the ceiling, and no caller is about    *)
(* to send a request while the counter is at the ceiling (the call fails   *)
(* with the quota error instead, until the period rolls over).             *)
(***************************************************************************)
C23_QuotaEnforced ==
    /\ adapter.requests_made <= quota_ceiling(adapter.provider)
    /\ \A c \in AdapterCallers :
          adapter.call[c].pc = "send"
             => adapter.requests_made < quota_ceiling(adapter.provider)

(***************************************************************************)
(* C24.  Throttle retries are bounded: every request that has been         *)
(* started returns to its caller, with a result or an error, also when     *)
(* the provider answers every attempt with 429.                            *)
(***************************************************************************)
C24_RequestReturns ==
    \A c \in AdapterCallers :
        (adapter.call[c].pc # "idle") ~> (adapter.call[c].pc = "idle")

(***************************************************************************)
(* C25.  Any two requests sent through the same adapter object are         *)
(* separated by at least its minimum inter-request interval, whichever     *)
(* threads sent them.                                                      *)
(***************************************************************************)
C25_MinimumInterval ==
    adapter.gap >= min_request_interval(adapter.provider)

(***************************************************************************)
(* The candidates of a batch at the positions of a set, in batch order.    *)
(***************************************************************************)
at_positions(batch, positions) ==
    [k \in 1..Cardinality(positions) |->
        batch[CHOOSE i \in positions : Cardinality({j \in positions : j <= i}) = k]]

normalized_email(lead) == strip(lower(lead.email))

passes_other_tests(lead, store, client_id) ==
    /\ is_valid_email_format(normalized_email(lead))
    /\ normalized_email(lead) \notin existing_emails(store, client_id)
    /\ ~ (lead.company_size > 0 /\ lead.company_size < 10)

(***************************************************************************)
(* C26 as stated.  The filter stage returns exactly the candidates of the  *)
(* batch, in batch order, with a valid address that no earlier candidate   *)
(* of the batch carries and the client does not have yet, and whose        *)
(* company size is not a known value below 10.                             *)
(***************************************************************************)
C26_FilterExact ==
    [][\A p \in Procs :
          (run[p].pc = "filter" /\ run'[p].pc = "enhance")
          => LET batch == run[p].cands
                 keep == {i \in 1..Len(batch) :
                            /\ passes_other_tests(batch[i], leads, run[p].client_id)
                            /\ \A j \in 1..(i - 1) :
                                  normalized_email(batch[j]) # normalized_email(batch[i])}
             IN  run'[p].cands = at_positions(batch, keep)]_vars

(***************************************************************************)
(* C26 amended.  The filter stage returns exactly the candidates of the    *)
(* batch, in batch order, that have a valid address the client does not    *)
(* have yet and a company size that is not a known value below 10, and     *)
(* whose address is not carried by an earlier candidate of the batch that  *)
(* passes these tests too; a candidate of unknown (zero) size is kept.     *)
(***************************************************************************)
C26_FilterKeepsFirstEligible ==
    [][\A p \in Procs :
          (run[p].pc = "filter" /\ run'[p].pc = "enhance")
          => LET batch == run[p].cands
                 keep == {i \in 1..Len(batch) :
                            /\ passes_other_tests(batch[i], leads, run[p].client_id)
                            /\ \A j \in 1..(i - 1) :
                                  passes_other_tests(batch[j], leads, run[p].client_id)
                                  => normalized_email(batch[j]) # normalized_email(batch[i])}
             IN  run'[p].cands = at_positions(batch, keep)]_vars

C26_FilteredBatch ==
    \E p \in Procs :
        /\ run[p].pc = "enhance"
        /\ run[p].raw = 2
        /\ run[p].filtered = 1
        /\ run[p].cands[1].company_size = 0

(***************************************************************************)
(* The rows a pipeline run has added to the leads table, once its save     *)
(* has been committed (runs of Spec execute one at a time).                *)
(***************************************************************************)
rows_saved_by(frame) == SubSeq(leads, Len(frame.leads_before) + 1, Len(leads))

has_saved(frame) ==
    \/ frame.pc \in {"incr_read", "incr_write", "stats"}
    \/ frame.pc = "done" /\ frame.step \in {"", "increment", "stats"}

(***************************************************************************)
(* C27.  The leads saved by a pipeline run all have score >= min_score,    *)
(* are at most max_results many, are in descending score order, and are    *)
(* not more than the candidates that were left after duplicates and        *)
(* invalid addresses were removed.                                         *)
(***************************************************************************)
C27_SavedLeadsQualified ==
    \A p \in Procs :
        has_saved(run[p])
        => LET rows == rows_saved_by(run[p])
           IN  /\ \A i \in 1..Len(rows) : rows[i].score >= run[p].min_score
               /\ Len(rows) <= run[p].max_results
               /\ \A i \in 1..Len(rows), j \in 1..Len(rows) :
                     i < j => rows[i].score >= rows[j].score
               /\ Len(rows) <= run[p].filtered
               /\ run[p].filtered <= run[p].raw

(***************************************************************************)
(* Two leads that differ in the annotation fields at most.                 *)
(***************************************************************************)
same_candidate(a, b) ==
    /\ a.email = b.email /\ a.name = b.name /\ a.phone = b.phone
    /\ a.company = b.company /\ a.company_size = b.company_size
    /\ a.title = b.title /\ a.industry = b.industry /\ a.location = b.location
    /\ a.linkedin_url = b.linkedin_url

(***************************************************************************)
(* C28.  Enrichment never removes or reorders candidates: whatever the     *)
(* providers answer, the output of _enhance_leads has the candidates of    *)
(* its input in the same order, changed in the annotation fields only,     *)
(* and a candidate whose verification failed is followed by candidates     *)
(* that are verified and validated as usual.                               *)
(***************************************************************************)
C28_EnrichmentKeepsAll ==
    \A p \in Procs :
        run[p].pc = "enhance"
        => \A outcomes \in [1..Len(run[p].cands) -> VerifyOutcomes] :
              LET f == run[p]
                  out == enhance_leads(f.cands, outcomes, f.verify_emails, f.enrich_linkedin)
              IN  /\ Len(out) = Len(f.cands)
                  /\ \A i \in 1..Len(f.cands) :
                        /\ same_candidate(out[i], f.cands[i])
                        /\ (f.verify_emails /\ f.cands[i].email # <<>>)
                           => out[i].email_verification = outcomes[i].result
                        /\ (/\ f.enrich_linkedin /\ f.cands[i].linkedin_url # <<>>
                            /\ ~ (f.verify_emails /\ outcomes[i].result = "missing"))
                           => out[i].linkedin_validation # ""

C28_FailedCandidateKept ==
    \E p \in Procs :
        /\ run[p].pc = "save"
        /\ run[p].verify_emails
        /\ run[p].enrich_linkedin
        /\ run[p].filtered = 2
        /\ run[p].verifications = 2
        /\ Len(run[p].cands) >= 1
        /\ run[p].cands[1].email_verification = "missing"
        /\ run[p].cands[1].linkedin_validation = ""

(***************************************************************************)
(* C29.  The preview operation get_lead_suggestions leaves durable state   *)
(* unchanged: it makes no verification or profile-validation call, writes  *)
(* no Lead, changes neither the usage counter nor a campaign or an         *)
(* execution, and returns at most 5 previews.                              *)
(***************************************************************************)
C29_PreviewLeavesStateAlone ==
    \A p \in Procs :
        run[p].pc = "previewed"
        => /\ leads = run[p].leads_before
           /\ usage["c1"] = run[p].usage_before
           /\ quota["c1"] = run[p].quota_before
           /\ campaigns = NoCampaigns
           /\ executions = <<>>
           /\ run[p].verifications = 0
           /\ Len(run[p].suggestions) <= 5

C29_SixFoundFivePreviewed ==
    \E p \in Procs :
        /\ run[p].pc = "previewed"
        /\ run[p].result = "success"
        /\ run[p].raw = 6
        /\ Len(run[p].suggestions) = 5
        /\ leads # <<>>

(***************************************************************************)
(* What a step did to a campaign row.                                      *)
(***************************************************************************)
run_completed(c, d) == d.last_run_at # c.last_run_at

frequency_edited(c, d) ==
    \/ d.frequency # c.frequency
    \/ d.frequency_value # c.frequency_value
    \/ d.frequency_unit # c.frequency_unit
    \/ d.preferred_time # c.preferred_time

(***************************************************************************)
(* C30.  After every completed run, every change of the status of a        *)
(* campaign (pause, resume, automatic completion) and every edit of a      *)
(* frequency field, next_run_at is what calculate_next_run gives for the   *)
(* resulting campaign.                                                     *)
(***************************************************************************)
C30_NextRunRecomputed ==
    [][\A k \in DOMAIN campaigns :
          LET c == campaigns[k]
              d == campaigns'[k]
          IN  (run_completed(c, d) \/ d.status # c.status \/ frequency_edited(c, d))
              => d.next_run_at = calculate_next_run(d, now')]_vars

(***************************************************************************)
(* C30 amended.  After every run whose result update_after_run records     *)
(* (scheduled or manual), every resume of a paused campaign and every      *)
(* edit of a frequency field, next_run_at is what calculate_next_run       *)
(* gives for the resulting campaign; pause_campaign clears next_run_at.    *)
(***************************************************************************)
C30_RecomputedUnlessPaused ==
    [][\A k \in DOMAIN campaigns :
          LET c == campaigns[k]
              d == campaigns'[k]
          IN  /\ (\/ run_completed(c, d)
                  \/ (c.status = "paused" /\ d.status = "active")
                  \/ frequency_edited(c, d))
                 => d.next_run_at = calculate_next_run(d, now')
              /\ (c.status # "paused" /\ d.status = "paused")
                 => d.next_run_at = None]_vars

C30_RunRecorded ==
    \E k \in DOMAIN campaigns :
        /\ campaigns[k].last_run_at # None
        /\ campaigns[k].last_run_at > 0
        /\ campaigns[k].status = "active"
        /\ campaigns[k].frequency = "custom"
        /\ campaigns[k].next_run_at = campaigns[k].last_run_at + Hour

(***************************************************************************)
(* C31.  On a successful scheduled run that saved n leads (n rows added    *)
(* to the lead store), the scheduler marks the execution completed with    *)
(* leads_generated = n, increases the campaign's total_leads_generated by  *)
(* exactly n, sets last_run_at to the run time, sets next_run_at one       *)
(* period after the new last_run_at, and sets the campaign completed if    *)
(* the ceiling is now met (and leaves its status alone otherwise).         *)
(***************************************************************************)
C31_SuccessfulRunRecorded ==
    [][(ExecuteFinish /\ run[SchedProc].result = "success")
       => LET k == task[SchedProc].campaign
              e == task[SchedProc].execution
              n == Len(leads) - Len(run[SchedProc].leads_before)
              c == campaigns[k]
              d == campaigns'[k]
          IN  /\ executions'[e].status = "completed"
              /\ executions'[e].leads_generated = n
              /\ d.total_leads_generated = c.total_leads_generated + n
              /\ d.last_run_at = now
              /\ (d.frequency = "daily") => (d.next_run_at = now + Day)
              /\ (d.frequency = "custom" /\ d.frequency_unit = "hour")
                 => (d.next_run_at = now + d.frequency_value * Hour)
              /\ d.status = IF HasCeiling(d) /\ d.total_leads_generated >= d.max_leads_total
                            THEN "completed"
                            ELSE c.status]_vars

C31_RunOfTwoRecorded ==
    /\ Len(executions) >= 1
    /\ executions[1].status = "completed"
    /\ executions[1].leads_generated = 2
    /\ Len(leads) = 2
    /\ campaigns["k1"].total_leads_generated = 2
    /\ campaigns["k1"].last_run_at = now
    /\ campaigns["k1"].status = "completed"
    /\ task[SchedProc].kind = "idle"

(***************************************************************************)
(* The tick and the campaign routes at the same time: the scheduler thread *)
(* goes through the due campaigns of a tick while request workers pause    *)
(* campaign k1 and set its ceiling between any two of its steps.  The      *)
(* routes take no lock and the tick keeps the list of its query.           *)
(* max_leads_per_run is stored as the payload carries it, so a campaign    *)
(* can have a per-run limit of 0.                                          *)
(***************************************************************************)
ConcurrentPause(k) ==
    /\ campaigns' = [campaigns EXCEPT ![k] = pause_campaign(@)]
    /\ campaigns' # campaigns
    /\ UNCHANGED <<usage, quota, leads, executions, now, run, task>>
    /\ UNCHANGED <<scheduler, adapter>>

ConcurrentUpdate(k) ==
    /\ campaigns' = [campaigns EXCEPT ![k] =
                        update_campaign(@, [NoChange EXCEPT !.max_leads_total = 1], now)]
    /\ campaigns' # campaigns
    /\ UNCHANGED <<usage, quota, leads, executions, now, run, task>>
    /\ UNCHANGED <<scheduler, adapter>>

TurnPayloads ==
    {[frequency |-> "custom", frequency_value |-> 1, frequency_unit |-> "hour",
      preferred_time |-> None, max_leads_per_run |-> per_run,
      max_leads_total |-> total, min_score |-> 20] :
        per_run \in 0..1, total \in {None, 1}}

TurnInit ==
    /\ InitThreads
    /\ quota = [c \in Clients |-> MaxQuota]
    /\ usage = [c \in Clients |-> 0]
    /\ leads = <<>>
    /\ \E d1 \in TurnPayloads :
          \E d2 \in {d \in TurnPayloads : d.max_leads_per_run = 1 /\ d.max_leads_total = None} :
             campaigns = [k \in CampaignIds |->
                 create_campaign("c1", IF k = "k1" THEN d1 ELSE d2, 0)]

TurnNext ==
    \/ check_and_run_campaigns(SchedProc) /\ UNCHANGED <<scheduler, adapter>>
    \/ ExecuteCampaign
    \/ ExecuteFinish
    \/ CampaignSearch(SchedProc)
    \/ ConcurrentEnhance(SchedProc)
    \/ PipelineStep(SchedProc)
    \/ ConcurrentPause("k1")
    \/ ConcurrentUpdate("k1")
    \/ AdvanceClock

TurnSpec == TurnInit /\ [][TurnNext]_vars

(***************************************************************************)
(* The same program with the scheduling the tick relies on: the scheduler  *)
(* thread is a running thread, so the next statement of its tick is        *)
(* eventually executed, and the provider calls of the pipeline return      *)
(* (they carry timeouts).  The weak fairness of the pipeline steps is      *)
(* written out with their enabling condition, a generate_leads frame of    *)
(* the scheduler thread that has not returned.                             *)
(***************************************************************************)
SchedulerPipelineStep ==
    CampaignSearch(SchedProc) \/ ConcurrentEnhance(SchedProc) \/ PipelineStep(SchedProc)

TurnFair ==
    /\ TurnSpec
    /\ WF_vars(ExecuteCampaign)
    /\ WF_vars(ExecuteFinish)
    /\ \/ []<>(run[SchedProc].pc \in {"idle", "done"})
       \/ []<><<SchedulerPipelineStep>>_vars

(***************************************************************************)
(* C32.  When the scheduler picks up a due campaign whose                  *)
(* total_leads_generated already meets its total ceiling, it creates no    *)
(* CampaignExecution, does not invoke the pipeline and, unless the commit  *)
(* raised and the tick logged the error, sets the campaign to completed.   *)
(***************************************************************************)
C32_CeilingMetSkipsRun ==
    [][(/\ ExecuteCampaign
        /\ HasCeiling(campaigns[Head(task[SchedProc].due)])
        /\ campaigns[Head(task[SchedProc].due)].total_leads_generated
              >= campaigns[Head(task[SchedProc].due)].max_leads_total)
       => /\ executions' = executions
          /\ run' = run
          /\ task'[SchedProc].campaign = ""
          /\ \/ task'[SchedProc].logged
             \/ campaigns'[Head(task[SchedProc].due)].status = "completed"]_vars

C32_CompletedWithoutRun ==
    /\ task[SchedProc].kind = "tick"
    /\ task[SchedProc].due = <<"k2">>
    /\ task[SchedProc].campaign = ""
    /\ ~ task[SchedProc].logged
    /\ campaigns["k1"].status = "completed"
    /\ campaigns["k1"].total_leads_generated >= campaigns["k1"].max_leads_total
    /\ HasCeiling(campaigns["k1"])
    /\ campaigns["k1"].last_run_at # None
    /\ campaigns["k1"].next_run_at = None
    /\ \A n \in 1..Len(executions) : executions[n].leads_generated >= 1

(***************************************************************************)
(* C35.  Pause and resume: pause_campaign sets the campaign to paused and  *)
(* clears next_run_at; resume_campaign applied to a paused campaign sets   *)
(* it to active and sets next_run_at to the next run time (five minutes    *)
(* from now when the campaign never ran, one period after last_run_at      *)
(* otherwise); resume_campaign applied to a campaign that is not paused    *)
(* returns False and leaves the campaign as it is.  Either function        *)
(* leaves every other field alone.                                         *)
(***************************************************************************)
C35_PauseResume ==
    /\ [](\A k \in DOMAIN campaigns :
             LET c == campaigns[k]
             IN  /\ c.status # "paused"
                    => /\ ~ resume_campaign_returns(c)
                       /\ resume_campaign(c, now) = c
                 /\ c.status = "paused" => resume_campaign_returns(c))
    /\ [][/\ PauseCampaign("k1")
             => /\ campaigns'["k1"].status = "paused"
                /\ campaigns'["k1"].next_run_at = None
                /\ \A f \in DOMAIN campaigns["k1"] \ {"status", "next_run_at"} :
                       campaigns'["k1"][f] = campaigns["k1"][f]
          /\ (ResumeCampaign("k1") /\ campaigns["k1"].status = "paused")
             => LET c == campaigns["k1"]
                    d == campaigns'["k1"]
                IN  /\ d.status = "active"
                    /\ d.next_run_at =
                          IF c.last_run_at = None THEN now + FirstRunDelay
                          ELSE IF c.frequency = "daily" THEN c.last_run_at + Day
                          ELSE c.last_run_at + c.frequency_value * Hour
                    /\ d = [c EXCEPT !.status = d.status, !.next_run_at = d.next_run_at]
         ]_vars

C35_PausedAfterRun ==
    /\ campaigns["k1"].status = "paused"
    /\ campaigns["k1"].next_run_at = None
    /\ campaigns["k1"].last_run_at # None
    /\ campaigns["k1"].total_leads_generated >= 1
    /\ Idle

in_due_list(k) ==
    /\ task[SchedProc].kind = "tick"
    /\ \E i \in 1..Len(task[SchedProc].due) : task[SchedProc].due[i] = k

C36_TotalWithinCeiling ==
    [][\A k \in DOMAIN campaigns :
          LET c == campaigns[k]
              d == campaigns'[k]
          IN  (/\ HasCeiling(c)
               /\ c.total_leads_generated <= c.max_leads_total
               /\ d.max_leads_total = c.max_leads_total)
              => d.total_leads_generated <= d.max_leads_total]_vars

(***************************************************************************)
(* C37.  The scheduler never creates a CampaignExecution or invokes the    *)
(* pipeline for a campaign whose status is not active at the moment the    *)
(* execution is created, also when a pause or completion of that campaign  *)
(* interleaves between the tick's due-campaign query and the campaign's    *)
(* turn in the tick.                                                       *)
(***************************************************************************)
C37_ExecutionOnlyForActive ==
    [][ExecuteCampaign
       => LET k == Head(task[SchedProc].due)
          IN  (Len(executions') > Len(executions) \/ run'[SchedProc].pc # "idle")
              => campaigns[k].status = "active"]_vars

some_execution_running ==
    \E n \in 1..Len(executions) : executions[n].status = "running"

C39_UniqueUnderConcurrency ==
    (/\ run["web1"].pc = "done"
     /\ run["web2"].pc = "done"
     /\ run["web1"].client_id = run["web2"].client_id)
    => \A i \in 1..Len(leads), j \in 1..Len(leads) :
          (/\ i # j
           /\ leads[i].client_id = run["web1"].client_id
           /\ leads[j].client_id = run["web1"].client_id)
          => strip(lower(leads[i].email)) # strip(lower(leads[j].email))

====
